---- MODULE Spec2Model ----
(***************************************************************************)
(* Belief store of the BOC language (belief_management.py): a BeliefManager*)
(* holding named BeliefState records, with confidence decay, evidence      *)
(* weighting and conflict resolution.                                      *)
(*                                                                         *)
(* Python floats are modelled in fixed point: a float x is the integer     *)
(* x * Scale, and every product or quotient is truncated to that           *)
(* resolution.  Time is counted in whole hours.                            *)
(***************************************************************************)
EXTENDS Integers, Sequences, FiniteSets, TLC

VARIABLES
    beliefs,    \* BeliefManager.beliefs: name -> BeliefState
    heap,       \* the list objects: reference -> sequence of Evidence
    now,        \* datetime.now(), in hours
    calls,      \* number of API calls made so far
    last,       \* the last API call: what was called and what came back
    threads,    \* the update_belief calls that run concurrently
    boc_code,   \* the text last given to parse_boc_code
    ast,        \* what parse_boc_code made of it
    node,       \* a node the caller built without the parser
    current_token,  \* BOCLexer: the token read last, with the position after it
    propagated, \* the uncertainty engine: the last operation and its outcome
    translation \* the translators: the last program and what was made of it

vars ==
    <<beliefs, heap, now, calls, last, threads, boc_code, ast, node,
      current_token, propagated, translation>>

\* What a call on the store made by one caller alone leaves as it is
others ==
    <<threads, boc_code, ast, node, current_token, propagated, translation>>

----------------------------------------------------------------------------
(* Bounds of the model *)

MaxCalls == 4       \* API calls in one run
MaxTime == 1        \* hours the clock may advance
MaxHist == 2        \* evidence items in one history

(* Fixed-point resolution of a float *)
Scale == 1000

Names == {"a", "b"}

None == "None"
ValueError == "ValueError"

----------------------------------------------------------------------------
(* Fixed-point arithmetic *)

Mul(x, y) == (x * y) \div Scale
Div(x, y) == (x * Scale) \div y
Max(x, y) == IF x >= y THEN x ELSE y
Min(x, y) == IF x <= y THEN x ELSE y

\* math.exp(x): the Taylor series of e^x, term k built from term k-1
RECURSIVE ExpTerms(_, _, _)
ExpTerms(x, term, k) ==
    IF k > 12 \/ term = 0 THEN 0
    ELSE term + ExpTerms(x, (term * x) \div (k * Scale), k + 1)

exp(x) == IF x >= 0 THEN ExpTerms(x, Scale, 1)
          ELSE Div(Scale, ExpTerms(-x, Scale, 1))

\* math.log(y), y > 0: 2 * artanh((y-1)/(y+1)) by its odd power series
RECURSIVE LogTerms(_, _, _)
LogTerms(z2, pow, k) ==
    IF k > 41 \/ pow = 0 THEN 0
    ELSE pow \div k + LogTerms(z2, Mul(pow, z2), k + 2)

log(y) ==
    LET z == Div(y - Scale, y + Scale)
    IN  2 * LogTerms(Mul(z, z), z, 1)

\* r ** n for an integer n >= 0
RECURSIVE pow(_, _)
pow(r, n) == IF n <= 0 THEN Scale ELSE Mul(r, pow(r, n - 1))

\* math.floor of a fixed-point number, as an integer
floor(t) == t \div Scale

----------------------------------------------------------------------------
(* Data *)

DecayFunctions == {"linear", "exponential", "logarithmic", "step", "custom"}
EvidenceTypes == {"positive", "negative", "neutral", "contradictory"}

\* Evidence(content, confidence, source, timestamp, evidence_type, weight)
Evidence(content, confidence, timestamp, evidence_type, weight) ==
    [content |-> content, confidence |-> confidence, timestamp |-> timestamp,
     evidence_type |-> evidence_type, weight |-> weight]

\* The Evidence objects of the callers at time t: the positive and the
\* contradictory one of the module's own test, then a negative one of the
\* day before, a contradictory one of weight 0, a heavy neutral one older
\* than a week, and one whose confidence is outside [0,1]
e1(t) == Evidence("e1", 900, t, "positive", 1000)
e2(t) == Evidence("e2", 800, t - 30, "negative", 1000)
e3(t) == Evidence("e3", 850, t, "contradictory", 1000)
e4(t) == Evidence("e4", 1000, t - 2, "contradictory", 0)
e5(t) == Evidence("e5", 500, t - 200, "neutral", 3000)
e7(t) == Evidence("e7", -500, t, "contradictory", 1000)

\* What a caller passes to add_contradictory_evidence after the name
EvidenceInputs(t) == {e3(t), e4(t), e7(t)}

\* What a caller passes to update_belief after the name: new_confidence and an
\* Optional[Evidence], the empty tuple being None
UpdateInputs(t) ==
    { <<950, <<>> >>, <<950, <<e1(t)>> >>, <<300, <<e2(t)>> >>,
      <<950, <<e3(t)>> >>, <<300, <<e5(t)>> >>,
      <<-100, <<>> >>, <<1200, <<e1(t)>> >> }

\* What a caller passes to create_belief after the name
BeliefInput(initial_confidence, decay_function, decay_rate, decay_period) ==
    [initial_confidence |-> initial_confidence,
     decay_function |-> decay_function,
     decay_rate |-> decay_rate, decay_period |-> decay_period,
     metadata |-> "{}"]

BeliefInputs ==
    { BeliefInput(800, "exponential", 100, 1),
      BeliefInput(900, "linear", 50, 1),
      BeliefInput(900, "logarithmic", 100, 1),
      BeliefInput(900, "step", 100, 1),
      [BeliefInput(1000, "custom", 100, 2) EXCEPT !.metadata = "{origin: probe}"],
      BeliefInput(-100, "exponential", 100, 1),
      BeliefInput(1200, "linear", 50, 1) }

\* The calls of the model: every input on the belief "a", and on "b" the
\* second belief of the module's test, an update without evidence and the
\* contradictory evidence of the test
CreateCalls ==
    { call \in Names \X BeliefInputs :
        call[1] = "a" \/ call[2] = BeliefInput(900, "linear", 50, 1) }

UpdateCalls(t) ==
    { call \in Names \X UpdateInputs(t) :
        call[1] = "a" \/ call[2] = <<950, <<>> >> }

EvidenceCalls(t) ==
    { call \in Names \X EvidenceInputs(t) :
        call[1] = "a" \/ call[2] = e3(t) }

\* BeliefState: the dataclass, with its field defaults
BeliefState(name, initial_confidence, current_confidence, created_at, last_updated, decay_function, decay_rate, decay_period, evidence_history, metadata) ==
    [name |-> name,
     initial_confidence |-> initial_confidence,
     current_confidence |-> current_confidence,
     created_at |-> created_at,
     last_updated |-> last_updated,
     decay_function |-> decay_function,
     decay_rate |-> decay_rate,
     decay_period |-> decay_period,
     evidence_history |-> evidence_history,
     metadata |-> metadata,
     min_confidence |-> 0,
     max_confidence |-> Scale,
     active |-> TRUE]

age_in_seconds(belief, t) == t - belief.last_updated

\* a fixed-point number of periods (both times are in hours)
age_in_periods(belief, t) ==
    (age_in_seconds(belief, t) * Scale) \div belief.decay_period

----------------------------------------------------------------------------
(* Decay curves *)

_linear_decay(confidence, decay_rate, age_periods) ==
    Max(0, confidence - Mul(decay_rate, age_periods))

_exponential_decay(confidence, decay_rate, age_periods) ==
    Mul(confidence, exp(-Mul(decay_rate, age_periods)))

_logarithmic_decay(confidence, decay_rate, age_periods) ==
    Div(confidence, Scale + Mul(decay_rate, log(Scale + age_periods)))

_step_decay(confidence, decay_rate, age_periods) ==
    Mul(confidence, pow(decay_rate, floor(age_periods)))

_custom_decay(confidence, decay_rate, age_periods) ==
    _exponential_decay(confidence, decay_rate, age_periods)

\* self.decay_functions.get(f)(confidence, decay_rate, age_periods)
decay_functions(f, confidence, decay_rate, age_periods) ==
    CASE f = "linear" -> _linear_decay(confidence, decay_rate, age_periods)
      [] f = "exponential" -> _exponential_decay(confidence, decay_rate, age_periods)
      [] f = "logarithmic" -> _logarithmic_decay(confidence, decay_rate, age_periods)
      [] f = "step" -> _step_decay(confidence, decay_rate, age_periods)
      [] f = "custom" -> _custom_decay(confidence, decay_rate, age_periods)

----------------------------------------------------------------------------
(* The store *)

\* The dict after d[name] = value
Put(d, name, value) ==
    [n \in DOMAIN d \cup {name} |-> IF n = name THEN value ELSE d[n]]

\* A fresh object reference: the least one the heap does not hold
NewRef(h) ==
    CHOOSE r \in 1..(Cardinality(DOMAIN h) + 1) :
        /\ r \notin DOMAIN h
        /\ \A q \in 1..(r - 1) : q \in DOMAIN h

\* The heap without the lists that no record of d or of ret refers to
Collect(h, d, ret) ==
    LET live == { d[n].evidence_history : n \in DOMAIN d }
                \cup { ret[n].evidence_history : n \in DOMAIN ret }
    IN  [r \in DOMAIN h \cap live |-> h[r]]

Clamp(belief, confidence) ==
    Max(belief.min_confidence, Min(belief.max_confidence, confidence))

\* What a call hands back: a return value of one kind, or an exception
NoDict == <<>>
Returned(kind, b, x, d) == [kind |-> kind, bool |-> b, float |-> x, dict |-> d]
ReturnNone == Returned("None", FALSE, 0, NoDict)
ReturnBool(b) == Returned("bool", b, 0, NoDict)
ReturnFloat(x) == Returned("float", FALSE, x, NoDict)
ReturnDict(d) == Returned("dict", FALSE, 0, d)
Raise(e) == Returned(e, FALSE, 0, NoDict)

\* The outcome of a method: the store and the heap after it, and its result
Outcome(d, h, ret) == [beliefs |-> d, heap |-> h, ret |-> ret]

\* Variant: the decayed confidence written back into the belief
apply_decay_in_place(belief, t) ==
    LET decayed_confidence ==
            Clamp(belief, decay_functions(belief.decay_function,
                                          belief.current_confidence,
                                          belief.decay_rate,
                                          age_in_periods(belief, t)))
    IN  [ret |-> decayed_confidence,
         belief |-> [belief EXCEPT !.current_confidence = decayed_confidence,
                                   !.last_updated = t]]

\* apply_decay: the value it returns, and the belief object as it leaves it
apply_decay(belief, t) ==
    IF ~belief.active
    THEN [ret |-> belief.current_confidence, belief |-> belief]
    ELSE LET age_periods == age_in_periods(belief, t)
             decayed_confidence ==
                 decay_functions(belief.decay_function, belief.current_confidence,
                                 belief.decay_rate, age_periods)
         IN  [ret |-> Clamp(belief, decayed_confidence), belief |-> belief]

_calculate_evidence_weight(evidence, t) ==
    LET age_hours == t - evidence.timestamp
        recency_factor == IF age_hours < 1 THEN 1000
                          ELSE IF age_hours < 24 THEN 800
                          ELSE IF age_hours < 168 THEN 600
                          ELSE 400
        type_factor == CASE evidence.evidence_type = "positive" -> 1200
                         [] evidence.evidence_type = "negative" -> 1100
                         [] evidence.evidence_type = "neutral" -> 800
                         [] evidence.evidence_type = "contradictory" -> 500
                         [] OTHER -> 1000
    IN  Mul(Mul(evidence.weight, recency_factor), type_factor)

\* Variant: an even blend whatever the evidence weight
_combine_confidences_evenly(current_confidence, new_confidence, evidence_weight) ==
    Mul(Scale - 500, current_confidence) + Mul(500, new_confidence)

_combine_confidences(current_confidence, new_confidence, evidence_weight) ==
    LET weight == IF evidence_weight > Scale
                  THEN Div(evidence_weight, evidence_weight + Scale)
                  ELSE 500
    IN  Mul(Scale - weight, current_confidence) + Mul(weight, new_confidence)

\* Variant: only the upper end of the range tested
InitialConfidenceAtMostOne(initial_confidence) == initial_confidence <= Scale

\* 0.0 <= initial_confidence <= 1.0
InitialConfidenceInRange(initial_confidence) ==
    0 <= initial_confidence /\ initial_confidence <= Scale

\* Variant: a record already stored under the name keeps its history, its
\* created_at and its metadata
create_belief_merging(d, h, name, in, t) ==
    IF ~InitialConfidenceInRange(in.initial_confidence)
    THEN Outcome(d, h, Raise(ValueError))
    ELSE LET old == name \in DOMAIN d
             ref == IF old THEN d[name].evidence_history ELSE NewRef(h)
             belief == BeliefState(name, in.initial_confidence,
                                   in.initial_confidence,
                                   IF old THEN d[name].created_at ELSE t, t,
                                   in.decay_function, in.decay_rate,
                                   in.decay_period, ref,
                                   IF old THEN d[name].metadata ELSE in.metadata)
         IN  Outcome(Put(d, name, belief),
                     IF old THEN h ELSE Put(h, ref, <<>>),
                     Returned("BeliefState", FALSE, 0, Put(NoDict, name, belief)))

create_belief(d, h, name, in, t) ==
    IF ~InitialConfidenceInRange(in.initial_confidence)
    THEN Outcome(d, h, Raise(ValueError))
    ELSE LET ref == NewRef(h)
             belief == BeliefState(name, in.initial_confidence,
                                   in.initial_confidence, t, t,
                                   in.decay_function, in.decay_rate,
                                   in.decay_period, ref, in.metadata)
         IN  Outcome(Put(d, name, belief), Put(h, ref, <<>>),
                     Returned("BeliefState", FALSE, 0, Put(NoDict, name, belief)))

\* Variant: the evidence put at the front of the history
Prepended(history, evidence) == <<evidence>> \o history

\* belief.evidence_history.append(evidence)
Appended(history, evidence) == Append(history, evidence)

\* Variant: no test, the value is left to the clamp
NewConfidenceUnchecked(new_confidence) == TRUE

\* 0.0 <= new_confidence <= 1.0
NewConfidenceInRange(new_confidence) ==
    0 <= new_confidence /\ new_confidence <= Scale

\* update_belief once the name is known to be in the store
UpdateStored(d, h, name, new_confidence, evidence, t) ==
    IF ~NewConfidenceInRange(new_confidence)
    THEN Outcome(d, h, Raise(ValueError))
    ELSE LET decay == apply_decay(d[name], t)
             belief == decay.belief
             decayed_confidence == decay.ret
             ref == belief.evidence_history
             h1 == IF evidence # <<>>
                   THEN [h EXCEPT ![ref] = Appended(@, evidence[1])]
                   ELSE h
             combined_confidence ==
                 IF evidence # <<>>
                 THEN _combine_confidences(
                          decayed_confidence, new_confidence,
                          _calculate_evidence_weight(evidence[1], t))
                 ELSE new_confidence
             updated == [belief EXCEPT
                            !.current_confidence = Clamp(belief, combined_confidence),
                            !.last_updated = t]
         IN  Outcome(Put(d, name, updated), h1, ReturnBool(TRUE))

\* Variant: new_confidence validated before the name is looked up
update_belief_validating_first(d, h, name, new_confidence, evidence, t) ==
    IF ~NewConfidenceInRange(new_confidence)
    THEN Outcome(d, h, Raise(ValueError))
    ELSE IF name \notin DOMAIN d THEN Outcome(d, h, ReturnBool(FALSE))
    ELSE UpdateStored(d, h, name, new_confidence, evidence, t)

update_belief(d, h, name, new_confidence, evidence, t) ==
    IF name \notin DOMAIN d THEN Outcome(d, h, ReturnBool(FALSE))
    ELSE UpdateStored(d, h, name, new_confidence, evidence, t)

get_current_confidence(d, h, name, t) ==
    IF name \notin DOMAIN d THEN Outcome(d, h, ReturnNone)
    ELSE LET decay == apply_decay(d[name], t)
         IN  Outcome(Put(d, name, decay.belief), h, ReturnFloat(decay.ret))

get_all_beliefs(d, h, apply, t) ==
    IF apply
    THEN LET decay == [n \in DOMAIN d |-> apply_decay(d[n], t)]
             result == [n \in DOMAIN d |->
                           [decay[n].belief EXCEPT
                               !.current_confidence = decay[n].ret]]
         IN  Outcome([n \in DOMAIN d |-> decay[n].belief], h, ReturnDict(result))
    ELSE Outcome(d, h, ReturnDict(d))

\* Variant: the whole evidence confidence as the penalty
conflict_penalty_in_full(evidence) == evidence.confidence

\* evidence.confidence * 0.3
conflict_penalty(evidence) == Mul(evidence.confidence, 300)

\* Variant: the penalty subtracted without the floor
PenalisedWithoutFloor(belief, penalty) == belief.current_confidence - penalty

\* max(belief.min_confidence, belief.current_confidence - conflict_penalty)
Penalised(belief, penalty) ==
    Max(belief.min_confidence, belief.current_confidence - penalty)

add_contradictory_evidence(d, h, belief_name, evidence, t) ==
    IF belief_name \notin DOMAIN d THEN Outcome(d, h, ReturnFloat(0))
    ELSE LET belief == d[belief_name]
             ref == belief.evidence_history
             penalty == conflict_penalty(evidence)
             updated == [belief EXCEPT
                            !.current_confidence = Penalised(belief, penalty),
                            !.last_updated = t]
         IN  Outcome(Put(d, belief_name, updated),
                     [h EXCEPT ![ref] = Appended(@, evidence)],
                     ReturnFloat(penalty))

\* [e for e in evidence_history if e.evidence_type == type]
OfType(history, type) == SelectSeq(history, LAMBDA e : e.evidence_type = type)

\* sum(self._calculate_evidence_weight(e, belief) for e in evidence)
RECURSIVE SumWeights(_, _)
SumWeights(evidence, t) ==
    IF evidence = <<>> THEN 0
    ELSE _calculate_evidence_weight(Head(evidence), t)
         + SumWeights(Tail(evidence), t)

\* Variant: halved whenever there is any contradictory weight
AdjustedByHalf(confidence, positive_weight, negative_weight, contradictory_weight) ==
    IF contradictory_weight > 0 THEN Mul(confidence, 500) ELSE confidence

\* The confidence resolve_conflicts leaves, given the three weights
Adjusted(confidence, positive_weight, negative_weight, contradictory_weight) ==
    IF contradictory_weight > positive_weight + negative_weight
    THEN Mul(confidence, 500)
    ELSE IF contradictory_weight > 0
    THEN Mul(confidence, 800)
    ELSE confidence

resolve_conflicts(d, h, belief_name, t) ==
    IF belief_name \notin DOMAIN d THEN Outcome(d, h, ReturnFloat(0))
    ELSE LET belief == d[belief_name]
             history == h[belief.evidence_history]
             positive_evidence == OfType(history, "positive")
             negative_evidence == OfType(history, "negative")
             contradictory_evidence == OfType(history, "contradictory")
         IN  IF contradictory_evidence = <<>>
             THEN Outcome(d, h, ReturnFloat(belief.current_confidence))
             ELSE LET adjusted ==
                          Adjusted(belief.current_confidence,
                                   SumWeights(positive_evidence, t),
                                   SumWeights(negative_evidence, t),
                                   SumWeights(contradictory_evidence, t))
                      updated == [belief EXCEPT
                                     !.current_confidence = adjusted,
                                     !.last_updated = t]
                  IN  Outcome(Put(d, belief_name, updated), h,
                              ReturnFloat(adjusted))

----------------------------------------------------------------------------
(* The lexer of boc_parser.py. A text is a sequence of characters, each a
   string of length one; positions count from 1, and a position past the end
   is the lexer's current_char being None. Line and column, which the parser
   never reads, are left out. *)

\* The character U+00B1, plus-minus
PlusMinus == "+-"

ascii_lowercase ==
    <<"a", "b", "c", "d", "e", "f", "g", "h", "i", "j", "k", "l", "m",
      "n", "o", "p", "q", "r", "s", "t", "u", "v", "w", "x", "y", "z">>

ascii_uppercase ==
    <<"A", "B", "C", "D", "E", "F", "G", "H", "I", "J", "K", "L", "M",
      "N", "O", "P", "Q", "R", "S", "T", "U", "V", "W", "X", "Y", "Z">>

digits == <<"0", "1", "2", "3", "4", "5", "6", "7", "8", "9">>

isspace(c) == c \in {" ", "\n", "\t"}

isdigit(c) == \E i \in 1..10 : digits[i] = c

isalpha(c) == \E i \in 1..26 : ascii_lowercase[i] = c \/ ascii_uppercase[i] = c

isalnum(c) == isalpha(c) \/ isdigit(c)

\* str.lower, character by character
lower(word) ==
    [k \in 1..Len(word) |->
        IF \E i \in 1..26 : ascii_uppercase[i] = word[k]
        THEN ascii_lowercase[CHOOSE i \in 1..26 : ascii_uppercase[i] = word[k]]
        ELSE word[k]]

\* The lexer's current_char at `pos`
current_char(text, pos) == IF pos > Len(text) THEN None ELSE text[pos]

\* peek: the character after the current one
peek(text, pos) == current_char(text, pos + 1)

RECURSIVE skip_whitespace(_, _)
\* The position after the white space at pos
skip_whitespace(text, pos) ==
    IF current_char(text, pos) # None /\ isspace(current_char(text, pos))
    THEN skip_whitespace(text, pos + 1)
    ELSE pos

RECURSIVE skip_comment(_, _)
\* The position of the end of the line, or of the text
skip_comment(text, pos) ==
    IF current_char(text, pos) # None /\ current_char(text, pos) # "\n"
    THEN skip_comment(text, pos + 1)
    ELSE pos

\* What a read_ method hands back: the text read and the position after it
Read(value, pos) == [value |-> value, pos |-> pos]

\* Variant: nothing is read
read_number_nothing(text, pos, result) == Read(result, pos)

RECURSIVE read_number(_, _, _)
\* Digits and dots, as many as follow; result is the text read so far
read_number(text, pos, result) ==
    IF current_char(text, pos) # None
       /\ (isdigit(current_char(text, pos)) \/ current_char(text, pos) = ".")
    THEN read_number(text, pos + 1, Append(result, text[pos]))
    ELSE Read(result, pos)

RECURSIVE read_identifier(_, _, _)
read_identifier(text, pos, result) ==
    IF current_char(text, pos) # None
       /\ (isalnum(current_char(text, pos))
           \/ current_char(text, pos) \in {"_", "-", "@"})
    THEN read_identifier(text, pos + 1, Append(result, text[pos]))
    ELSE Read(result, pos)

RECURSIVE read_string_body(_, _, _, _)
\* read_string after the opening quote: up to the closing quote, which is
\* skipped, or to the end of the text
read_string_body(text, pos, quote_char, result) ==
    IF current_char(text, pos) # None /\ current_char(text, pos) # quote_char
    THEN IF current_char(text, pos) = "\\"
         THEN IF current_char(text, pos + 1) # None
              THEN read_string_body(text, pos + 2, quote_char,
                                    Append(result, text[pos + 1]))
              ELSE read_string_body(text, pos + 1, quote_char, result)
         ELSE read_string_body(text, pos + 1, quote_char,
                               Append(result, text[pos]))
    ELSE IF current_char(text, pos) = quote_char THEN Read(result, pos + 1)
         ELSE Read(result, pos)

read_string(text, pos) == read_string_body(text, pos + 1, text[pos], <<>>)

\* The words the lexer and the parser compare texts with, character by
\* character: the keywords, the clause and key names, the curve and unit names
Word ==
    [belief |-> <<"b", "e", "l", "i", "e", "f">>,
     reasoning_context |-> <<"r", "e", "a", "s", "o", "n", "i", "n", "g",
         "_", "c", "o", "n", "t", "e", "x", "t">>,
     intent |-> <<"i", "n", "t", "e", "n", "t">>,
     shared_state |-> <<"s", "h", "a", "r", "e", "d", "_", "s", "t", "a",
         "t", "e">>,
     self_capability |-> <<"s", "e", "l", "f", "_", "c", "a", "p", "a", "b",
         "i", "l", "i", "t", "y">>,
     calculate_with_uncertainty |-> <<"c", "a", "l", "c", "u", "l", "a",
         "t", "e", "_", "w", "i", "t", "h", "_", "u", "n", "c", "e", "r",
         "t", "a", "i", "n", "t", "y">>,
     structured_knowledge |-> <<"s", "t", "r", "u", "c", "t", "u", "r", "e",
         "d", "_", "k", "n", "o", "w", "l", "e", "d", "g", "e">>,
     entity |-> <<"e", "n", "t", "i", "t", "y">>,
     update_belief |-> <<"u", "p", "d", "a", "t", "e", "_", "b", "e", "l",
         "i", "e", "f">>,
     confidence_decay |-> <<"c", "o", "n", "f", "i", "d", "e", "n", "c",
         "e", "_", "d", "e", "c", "a", "y">>,
     agent_coordination |-> <<"a", "g", "e", "n", "t", "_", "c", "o", "o",
         "r", "d", "i", "n", "a", "t", "i", "o", "n">>,
     provenance |-> <<"p", "r", "o", "v", "e", "n", "a", "n", "c", "e">>,
     true |-> <<"t", "r", "u", "e">>,
     false |-> <<"f", "a", "l", "s", "e">>,
     exponential |-> <<"e", "x", "p", "o", "n", "e", "n", "t", "i", "a",
         "l">>,
     linear |-> <<"l", "i", "n", "e", "a", "r">>,
     logarithmic |-> <<"l", "o", "g", "a", "r", "i", "t", "h", "m", "i",
         "c">>,
     step |-> <<"s", "t", "e", "p">>,
     day |-> <<"d", "a", "y">>,
     hour |-> <<"h", "o", "u", "r">>,
     minute |-> <<"m", "i", "n", "u", "t", "e">>,
     confidence |-> <<"c", "o", "n", "f", "i", "d", "e", "n", "c", "e">>,
     to_perform |-> <<"t", "o", "_", "p", "e", "r", "f", "o", "r", "m">>,
     evidence |-> <<"e", "v", "i", "d", "e", "n", "c", "e">>,
     period |-> <<"p", "e", "r", "i", "o", "d">>,
     coordinator |-> <<"c", "o", "o", "r", "d", "i", "n", "a", "t", "o",
         "r">>,
     participants |-> <<"p", "a", "r", "t", "i", "c", "i", "p", "a", "n",
         "t", "s">>,
     type |-> <<"t", "y", "p", "e">>,
     constraints |-> <<"c", "o", "n", "s", "t", "r", "a", "i", "n", "t",
         "s">>,
     source |-> <<"s", "o", "u", "r", "c", "e">>,
     timestamp |-> <<"t", "i", "m", "e", "s", "t", "a", "m", "p">>,
     chain_of_custody |-> <<"c", "h", "a", "i", "n", "_", "o", "f", "_",
         "c", "u", "s", "t", "o", "d", "y">>,
     formula |-> <<"f", "o", "r", "m", "u", "l", "a">>,
     input_uncertainties |-> <<"i", "n", "p", "u", "t", "_", "u", "n", "c",
         "e", "r", "t", "a", "i", "n", "t", "i", "e", "s">>]

\* keyword_map: the token type of a word, IDENTIFIER by default
keyword_map(word) ==
    CASE word = Word.belief -> "BELIEF"
      [] word = Word.reasoning_context -> "REASONING_CONTEXT"
      [] word = Word.intent -> "INTENT"
      [] word = Word.shared_state -> "SHARED_STATE"
      [] word = Word.self_capability -> "SELF_CAPABILITY"
      [] word = Word.calculate_with_uncertainty -> "CALCULATE_WITH_UNCERTAINTY"
      [] word = Word.structured_knowledge -> "STRUCTURED_KNOWLEDGE"
      [] word = Word.entity -> "ENTITY"
      [] word = Word.update_belief -> "UPDATE_BELIEF"
      [] word = Word.confidence_decay -> "CONFIDENCE_DECAY"
      [] word = Word.agent_coordination -> "AGENT_COORDINATION"
      [] word = Word.provenance -> "PROVENANCE"
      [] word = Word.true -> "BOOLEAN"
      [] word = Word.false -> "BOOLEAN"
      [] OTHER -> "IDENTIFIER"

\* char_tokens: the token type of a single character, None without one
char_tokens(c) ==
    CASE c = "=" -> "ASSIGN"
      [] c = "{" -> "LBRACE"
      [] c = "}" -> "RBRACE"
      [] c = "[" -> "LBRACKET"
      [] c = "]" -> "RBRACKET"
      [] c = "(" -> "LPAREN"
      [] c = ")" -> "RPAREN"
      [] c = "," -> "COMMA"
      [] c = ":" -> "COLON"
      [] c = "." -> "ACCESS"
      [] c = ";" -> "SEMICOLON"
      [] c = "@" -> "AT"
      [] OTHER -> None

\* The exception of the lexer and the parser, in the place of a token type
Exception == "Exception"

\* BOCToken, with the lexer's position after it
BOCToken(type, value, pos) == [type |-> type, value |-> value, pos |-> pos]

RECURSIVE get_next_token(_, _)
get_next_token(text, pos) ==
    LET c == current_char(text, pos)
    IN  IF c = None THEN BOCToken("EOF", <<>>, pos)
        ELSE IF isspace(c) THEN get_next_token(text, skip_whitespace(text, pos))
        ELSE IF c = "/" /\ peek(text, pos) = "/"
             THEN get_next_token(text, skip_comment(text, pos + 2))
        ELSE IF isdigit(c)
             THEN LET r == read_number(text, pos, <<>>)
                  IN  BOCToken("NUMBER", r.value, r.pos)
        ELSE IF isalpha(c) \/ c = "@"
             THEN LET r == read_identifier(text, pos, <<>>)
                  IN  BOCToken(keyword_map(lower(r.value)), r.value, r.pos)
        ELSE IF c \in {"\"", "'"}
             THEN LET r == read_string(text, pos)
                  IN  BOCToken("STRING", r.value, r.pos)
        ELSE IF c = "." /\ peek(text, pos) = "."
             THEN BOCToken("RANGE", <<".", ".">>, pos + 2)
        ELSE IF c = "=" /\ peek(text, pos) = ">"
             THEN BOCToken("LAMBDA", <<"=", ">">>, pos + 2)
        ELSE IF c = PlusMinus
             THEN LET r == read_number(text, pos + 1, <<>>)
                  IN  BOCToken("UNCERTAINTY", <<PlusMinus>> \o r.value, r.pos)
        ELSE IF char_tokens(c) # None
             THEN BOCToken(char_tokens(c), <<c>>, pos + 1)
        ELSE BOCToken(Exception, <<c>>, pos)

----------------------------------------------------------------------------
(* The values of boc_parser.py. A str is tagged, so that isinstance(x, str)
   can tell it from the dictionaries and node objects the parser builds. *)

Str(value) == [type |-> "str", value |-> value]

isinstance_str(x) == "type" \in DOMAIN x /\ x.type = "str"

\* A dict built by the parser: each has a 'type' key
isinstance_dict(x) == "type" \in DOMAIN x /\ x.type # "str"

RECURSIVE int(_)
\* The number a non-empty run of digits denotes
int(word) ==
    IF word = <<>> THEN 0
    ELSE 10 * int(SubSeq(word, 1, Len(word) - 1))
         + (CHOOSE i \in 1..10 : digits[i] = word[Len(word)]) - 1

\* Position of the first "." of a word, Len + 1 without one
Dot(word) ==
    IF \E k \in 1..Len(word) : word[k] = "."
    THEN CHOOSE k \in 1..Len(word) :
             word[k] = "." /\ \A j \in 1..(k - 1) : word[j] # "."
    ELSE Len(word) + 1

\* float(word) for decimal numerals without sign or exponent, in thousandths
\* (further decimals are cut); any other text of the model's inputs is not a
\* number and float raises ValueError
float(word) ==
    LET whole == SubSeq(word, 1, Dot(word) - 1)
        fraction == SubSeq(word, Dot(word) + 1, Len(word))
        padded == SubSeq(fraction \o <<"0", "0", "0">>, 1, 3)
    IN  IF /\ \A k \in 1..Len(whole) : isdigit(whole[k])
           /\ \A k \in 1..Len(fraction) : isdigit(fraction[k])
           /\ Len(whole) + Len(fraction) > 0
        THEN [raised |-> None, value |-> int(whole) * Scale + int(padded)]
        ELSE [raised |-> ValueError, value |-> 0]

Literal(value, token_type) ==
    [type |-> "Literal", value |-> value, token_type |-> token_type]

Identifier(value) == [type |-> "Identifier", value |-> value]

Array(items) == [type |-> "Array", items |-> items]

Object(properties) == [type |-> "Object", properties |-> properties]

Entity(name, properties) ==
    [type |-> "Entity", name |-> name, properties |-> properties]

KeyValue(key, value) == [type |-> "KeyValue", key |-> key, value |-> value]

\* Variant: the text "0" for the base value that was not given
BOCUncertaintyOfZero(value, uncertainty_range) ==
    [node_type |-> "BOCUncertainty", value |-> "0",
     uncertainty_range |-> uncertainty_range, uncertainty_value |-> None]

\* BOCUncertainty(None, uncertainty_range): without a value no
\* UncertaintyValue is made
BOCUncertainty(value, uncertainty_range) ==
    [node_type |-> "BOCUncertainty", value |-> value,
     uncertainty_range |-> uncertainty_range, uncertainty_value |-> None]

----------------------------------------------------------------------------
(* The parser of boc_parser.py. Its state is the current token, which carries
   the lexer's position; a raised exception is a token of type Exception,
   and every method hands back its value with the token it stopped at. *)

Result(value, tok) == [value |-> value, tok |-> tok]

Raised(tok) == tok.type = Exception

raise(tok) == BOCToken(Exception, tok.value, tok.pos)

\* A local variable of a method: the rest of the method with the value bound
Then(value, Rest(_)) == CHOOSE rest \in { Rest(bound) : bound \in {value} } : TRUE

\* eat: the next token if the current one has the expected type
eat(text, tok, token_type) ==
    IF tok.type = token_type THEN get_next_token(text, tok.pos)
    ELSE raise(tok)

RECURSIVE parse_expression(_, _)
RECURSIVE array_items(_, _, _)
RECURSIVE object_properties(_, _, _)

\* parse_array
parse_array(text, tok) ==
    Then(eat(text, tok, "LBRACKET"), LAMBDA open :
    Then(IF open.type # "RBRACKET" THEN array_items(text, open, <<>>)
         ELSE Result(<<>>, open), LAMBDA items :
    Result(Array(items.value), eat(text, items.tok, "RBRACKET"))))

\* The loop of parse_array: items so far, then the next one
array_items(text, tok, items) ==
    Then(parse_expression(text, tok), LAMBDA item :
    IF Raised(item.tok) THEN Result(items, item.tok)
    ELSE IF item.tok.type = "RBRACKET"
         THEN Result(Append(items, item.value), item.tok)
    ELSE IF item.tok.type = "COMMA"
         THEN array_items(text, eat(text, item.tok, "COMMA"),
                          Append(items, item.value))
    ELSE Result(items, raise(item.tok)))

\* parse_object_expression
parse_object_expression(text, tok) ==
    Then(object_properties(text, eat(text, tok, "LBRACE"), <<>>), LAMBDA properties :
    Result(Object(properties.value), eat(text, properties.tok, "RBRACE")))

\* The loop of parse_object_expression: a key, a colon, a value, and a comma
\* or the closing brace
object_properties(text, tok, properties) ==
    IF Raised(tok) \/ tok.type = "RBRACE" THEN Result(properties, tok)
    ELSE IF tok.type \notin {"IDENTIFIER", "STRING"}
         THEN Result(properties, raise(tok))
    ELSE Then(parse_expression(text, eat(text, eat(text, tok, tok.type), "COLON")),
              LAMBDA value :
         IF Raised(value.tok) THEN Result(properties, value.tok)
         ELSE IF value.tok.type = "COMMA"
              THEN object_properties(text, eat(text, value.tok, "COMMA"),
                                     Put(properties, tok.value, value.value))
         ELSE IF value.tok.type # "RBRACE"
              THEN Result(properties, raise(value.tok))
         ELSE Result(Put(properties, tok.value, value.value), value.tok))

\* parse_entity_expression
parse_entity_expression(text, tok) ==
    Then(parse_expression(text, eat(text, eat(text, tok, "ENTITY"), "LPAREN")),
         LAMBDA entity_name :
    Then(parse_object_expression(text, eat(text, entity_name.tok, "COMMA")),
         LAMBDA properties :
    Result(Entity(entity_name.value, properties.value),
           eat(text, properties.tok, "RPAREN"))))

\* The text of an UNCERTAINTY token without its sign
uncertainty_numeric(value) ==
    IF value # <<>> /\ value[1] = PlusMinus THEN SubSeq(value, 2, Len(value))
    ELSE value

\* parse_uncertainty_expression: the number after the sign, as a float
parse_uncertainty_expression(text, tok) ==
    Then(eat(text, tok, "UNCERTAINTY"), LAMBDA next :
    Then(float(uncertainty_numeric(tok.value)), LAMBDA number :
    IF Raised(next) THEN Result(None, next)
    ELSE IF number.raised # None THEN Result(None, raise(next))
    ELSE Result(BOCUncertainty(None, number.value), next)))

parse_expression(text, tok) ==
    CASE tok.type = "LBRACKET" -> parse_array(text, tok)
      [] tok.type = "UNCERTAINTY" -> parse_uncertainty_expression(text, tok)
      [] tok.type = "ENTITY" -> parse_entity_expression(text, tok)
      [] tok.type = "LBRACE" -> parse_object_expression(text, tok)
      [] tok.type \in {"STRING", "NUMBER", "BOOLEAN"} ->
             Result(Literal(tok.value, tok.type), eat(text, tok, tok.type))
      [] tok.type = "IDENTIFIER" ->
             Result(Identifier(tok.value), eat(text, tok, "IDENTIFIER"))
      [] OTHER -> Result(None, raise(tok))

----------------------------------------------------------------------------
(* The statement nodes of boc_parser.py that work on the belief store *)

\* sub in word: sub occurs in word as a run of characters
Contains(word, sub) ==
    \E k \in 0..(Len(word) - Len(sub)) : SubSeq(word, k + 1, k + Len(sub)) = sub

\* The end of the run of digits that starts at position k of word
DigitsEnd(word, k) ==
    CHOOSE j \in k..Len(word) :
        /\ \A i \in k..j : isdigit(word[i])
        /\ j < Len(word) => ~isdigit(word[j + 1])

\* re.search(r'(\d+\.?\d*)', word): the first run of digits, with a dot after
\* it if there is one and the digits after that dot; the empty text without
\* a digit in word
search_number(word) ==
    IF \A k \in 1..Len(word) : ~isdigit(word[k]) THEN <<>>
    ELSE LET start == CHOOSE k \in 1..Len(word) :
                          isdigit(word[k]) /\ \A j \in 1..(k - 1) : ~isdigit(word[j])
             whole == DigitsEnd(word, start)
             stop == IF whole < Len(word) /\ word[whole + 1] = "."
                     THEN IF whole + 1 < Len(word) /\ isdigit(word[whole + 2])
                          THEN DigitsEnd(word, whole + 2)
                          ELSE whole + 1
                     ELSE whole
         IN  SubSeq(word, start, stop)

\* _extract_rate: the first number of the text, 0.1 without one
_extract_rate(func_str) ==
    IF search_number(func_str) # <<>> THEN float(search_number(func_str)).value
    ELSE 100

\* _extract_number: the first number of the text, 1.0 without one
_extract_number(period_str) ==
    IF search_number(period_str) # <<>> THEN float(search_number(period_str)).value
    ELSE Scale

\* Variant: the rule whose keyword comes first in the text decides
_parse_decay_function_by_position(decay_func) ==
    LET keywords == <<Word.exponential, Word.linear, Word.logarithmic, Word.step>>
        names == <<"exponential", "linear", "logarithmic", "step">>
        At(i) == CHOOSE k \in 0..Len(decay_func.value) :
                     /\ SubSeq(lower(decay_func.value), k + 1,
                               k + Len(keywords[i])) = keywords[i]
                     /\ \A j \in 0..(k - 1) :
                           SubSeq(lower(decay_func.value), j + 1,
                                  j + Len(keywords[i])) # keywords[i]
        found == { i \in 1..4 : Contains(lower(decay_func.value), keywords[i]) }
    IN  IF isinstance_str(decay_func) /\ found # {}
        THEN <<names[CHOOSE i \in found : \A j \in found : At(i) <= At(j)],
               _extract_rate(decay_func.value)>>
        ELSE <<"exponential", 100>>

\* _parse_decay_function: the curve and the rate of a decay text; the rules
\* are tried in the order of the source
_parse_decay_function(decay_func) ==
    IF isinstance_str(decay_func)
    THEN LET decay_lower == lower(decay_func.value)
         IN  IF Contains(decay_lower, Word.exponential)
             THEN <<"exponential", _extract_rate(decay_func.value)>>
             ELSE IF Contains(decay_lower, Word.linear)
             THEN <<"linear", _extract_rate(decay_func.value)>>
             ELSE IF Contains(decay_lower, Word.logarithmic)
             THEN <<"logarithmic", _extract_rate(decay_func.value)>>
             ELSE IF Contains(decay_lower, Word.step)
             THEN <<"step", _extract_rate(decay_func.value)>>
             ELSE <<"exponential", 100>>
    ELSE <<"exponential", 100>>

\* timedelta(days=, hours=, minutes=) of a float, in seconds
timedelta(unit, n) ==
    CASE unit = "days" -> (n * 86400) \div Scale
      [] unit = "hours" -> (n * 3600) \div Scale
      [] unit = "minutes" -> (n * 60) \div Scale

\* _parse_time_period: the period of a period text, in seconds
_parse_time_period(time_period) ==
    IF isinstance_str(time_period)
    THEN LET period_lower == lower(time_period.value)
         IN  IF Contains(period_lower, Word.day)
             THEN timedelta("days", _extract_number(time_period.value))
             ELSE IF Contains(period_lower, Word.hour)
             THEN timedelta("hours", _extract_number(time_period.value))
             ELSE IF Contains(period_lower, Word.minute)
             THEN timedelta("minutes", _extract_number(time_period.value))
             ELSE timedelta("hours", Scale)
    ELSE timedelta("hours", Scale)

\* BOCConfidenceDecay.__init__
BOCConfidenceDecay(belief_name, decay_function, time_period) ==
    [node_type |-> "BOCConfidenceDecay",
     belief_name |-> belief_name,
     decay_function |-> decay_function,
     time_period |-> time_period,
     parsed_decay_function |-> _parse_decay_function(decay_function),
     parsed_period |-> _parse_time_period(time_period)]

\* Variant: the Evidence of the node is positive and of weight 3.0
BOCUpdateBeliefPositive(belief_name, new_confidence, evidence_source, t) ==
    [node_type |-> "BOCUpdateBelief",
     belief_name |-> belief_name,
     new_confidence |-> new_confidence,
     evidence_source |-> evidence_source,
     evidence_type |-> "positive",
     evidence |-> Evidence("Belief update to {new_confidence}", new_confidence,
                           t, "positive", 3 * Scale)]

\* BOCUpdateBelief.__init__ at time t, evidence_type left at its default:
\* the Evidence it makes has the expression as its confidence
BOCUpdateBelief(belief_name, new_confidence, evidence_source, t) ==
    [node_type |-> "BOCUpdateBelief",
     belief_name |-> belief_name,
     new_confidence |-> new_confidence,
     evidence_source |-> evidence_source,
     evidence_type |-> "neutral",
     evidence |-> Evidence("Belief update to {new_confidence}", new_confidence,
                           t, "neutral", Scale)]

\* The name of a belief as the store has it: the names of the model have one
\* character
Name(belief_name) == belief_name[1]

\* The confidence apply_to_manager passes on: the float of the 'value' of a
\* dict that has one and of a str, any other value as it is; float raises
\* ValueError on a text that is no number
Confidence(new_confidence) ==
    IF \/ isinstance_dict(new_confidence) /\ "value" \in DOMAIN new_confidence
       \/ isinstance_str(new_confidence)
    THEN [float(new_confidence.value) EXCEPT !.raised = IF @ = None THEN "float" ELSE @]
    ELSE [raised |-> None, value |-> new_confidence]

\* BOCUpdateBelief.apply_to_manager at time t: update_belief with the
\* confidence and the node's evidence; a ValueError or a TypeError of the
\* conversion or of update_belief is caught and False is returned. A
\* confidence that is no float makes `0.0 <= new_confidence` raise TypeError
\* when the name is in the store.
apply_to_manager(d, h, update, t) ==
    Then(Confidence(update.new_confidence), LAMBDA confidence :
    IF confidence.raised = ValueError THEN Outcome(d, h, ReturnBool(FALSE))
    ELSE IF Name(update.belief_name) \notin DOMAIN d
         THEN Outcome(d, h, ReturnBool(FALSE))
    ELSE IF confidence.raised # "float" THEN Outcome(d, h, ReturnBool(FALSE))
    ELSE Then(update_belief(d, h, Name(update.belief_name), confidence.value,
                            <<update.evidence>>, t), LAMBDA r :
         IF r.ret.kind = ValueError THEN Outcome(d, h, ReturnBool(FALSE)) ELSE r))

----------------------------------------------------------------------------
(* The statements of the parser *)

\* The value True of an attribute written without parentheses
True == [type |-> "bool", bool |-> TRUE]

\* The value of one attribute: the expression in its parentheses, or True
attr_value(text, tok) ==
    IF tok.type = "LPAREN"
    THEN Then(parse_expression(text, eat(text, tok, "LPAREN")), LAMBDA value :
         Result(value.value, eat(text, value.tok, "RPAREN")))
    ELSE Result(True, tok)

RECURSIVE parse_attributes_from(_, _, _)
\* The loop of parse_attributes: one @name or @name(expr) per AT token
parse_attributes_from(text, tok, attributes) ==
    IF tok.type # "AT" THEN Result(attributes, tok)
    ELSE Then(eat(text, tok, "AT"), LAMBDA name :
         Then(attr_value(text, eat(text, name, "IDENTIFIER")), LAMBDA value :
         IF Raised(value.tok) THEN Result(attributes, value.tok)
         ELSE parse_attributes_from(text, value.tok,
                                    Put(attributes, name.value, value.value))))

parse_attributes(text, tok) == parse_attributes_from(text, tok, <<>>)

RECURSIVE block_content(_, _, _)
\* The loop of parse_block_content: key: value pairs and bare expressions up
\* to the closing brace
block_content(text, tok, content) ==
    IF Raised(tok) \/ tok.type = "RBRACE" THEN Result(content, tok)
    ELSE Then(parse_expression(text,
                  IF tok.type = "IDENTIFIER"
                  THEN eat(text, eat(text, tok, "IDENTIFIER"), "COLON")
                  ELSE tok), LAMBDA value :
         block_content(text, value.tok,
                       Append(content, IF tok.type = "IDENTIFIER"
                                       THEN KeyValue(tok.value, value.value)
                                       ELSE value.value)))

parse_block_content(text, tok) ==
    Then(block_content(text, eat(text, tok, "LBRACE"), <<>>), LAMBDA content :
    Result(content.value, eat(text, content.tok, "RBRACE")))

\* A statement that is its keyword, its attributes and its block
AttributesAndBlock(text, tok, token_type) ==
    Then(parse_attributes(text, eat(text, tok, token_type)), LAMBDA attributes :
    Then(parse_block_content(text, attributes.tok), LAMBDA content :
    [attributes |-> attributes.value, content |-> content.value,
     tok |-> content.tok]))

\* An optional clause `word <sign> expression` before the rest of a statement;
\* the value is in a tuple, the empty tuple being None
Clause(text, tok, word, sign) ==
    IF tok.type = "IDENTIFIER" /\ tok.value = word
    THEN Then(parse_expression(text, eat(text, eat(text, tok, "IDENTIFIER"), sign)),
              LAMBDA value : Result(<<value.value>>, value.tok))
    ELSE Result(<<>>, tok)

parse_belief(text, tok) ==
    Then(Clause(text, eat(text, tok, "BELIEF"), Word.confidence, "ASSIGN"),
         LAMBDA confidence :
    Then(parse_block_content(text, confidence.tok), LAMBDA content :
    Result([node_type |-> "BOCBelief",
            attributes |-> IF confidence.value = <<>> THEN <<>>
                           ELSE Put(<<>>, Word.confidence, confidence.value[1]),
            content |-> content.value], content.tok)))

parse_reasoning_context(text, tok) ==
    Then(AttributesAndBlock(text, tok, "REASONING_CONTEXT"), LAMBDA r :
    Result([node_type |-> "BOCReasoningContext",
            attributes |-> r.attributes, content |-> r.content], r.tok))

parse_structured_knowledge(text, tok) ==
    Then(AttributesAndBlock(text, tok, "STRUCTURED_KNOWLEDGE"), LAMBDA r :
    Result([node_type |-> "BOCStructuredKnowledge",
            attributes |-> r.attributes, content |-> r.content], r.tok))

parse_shared_state(text, tok) ==
    Then(AttributesAndBlock(text, tok, "SHARED_STATE"), LAMBDA r :
    Result([type |-> "SharedState",
            attributes |-> r.attributes, content |-> r.content], r.tok))

parse_self_capability(text, tok) ==
    Then(AttributesAndBlock(text, tok, "SELF_CAPABILITY"), LAMBDA r :
    Result([type |-> "SelfCapability",
            attributes |-> r.attributes, content |-> r.content], r.tok))

parse_intent(text, tok) ==
    Then(Clause(text, eat(text, tok, "INTENT"), Word.to_perform, "COLON"),
         LAMBDA action_value :
    Then(parse_attributes(text, action_value.tok), LAMBDA attributes :
    Then(parse_block_content(text, attributes.tok), LAMBDA content :
    Result([node_type |-> "BOCIntent",
            action |-> IF action_value.value = <<>> THEN <<>>
                       ELSE <<[type |-> Word.to_perform,
                               value |-> action_value.value[1]]>>,
            attributes |-> attributes.value, content |-> content.value],
           content.tok))))

\* None where the code tests the type of a value
NoneValue == [node_type |-> "NoneType"]

parse_update_belief(text, tok, t) ==
    Then(eat(text, tok, "UPDATE_BELIEF"), LAMBDA name :
    Then(parse_expression(text, eat(text, eat(text, name, "IDENTIFIER"), "LPAREN")),
         LAMBDA new_confidence :
    Then(Clause(text, eat(text, new_confidence.tok, "RPAREN"), Word.evidence, "COLON"),
         LAMBDA evidence_source :
    Result(BOCUpdateBelief(name.value, new_confidence.value,
                           evidence_source.value, t),
           evidence_source.tok))))

parse_confidence_decay(text, tok) ==
    Then(eat(text, tok, "CONFIDENCE_DECAY"), LAMBDA name :
    Then(parse_expression(text, eat(text, eat(text, name, "IDENTIFIER"), "LPAREN")),
         LAMBDA decay_function :
    Then(Clause(text, eat(text, decay_function.tok, "RPAREN"), Word.period, "COLON"),
         LAMBDA time_period :
    IF Raised(time_period.tok) THEN Result(None, time_period.tok)
    ELSE Result(BOCConfidenceDecay(name.value, decay_function.value,
                                   IF time_period.value = <<>> THEN NoneValue
                                   ELSE time_period.value[1]),
                time_period.tok))))

\* item is a dict with item.get('key') == word
HasKey(item, word) ==
    isinstance_dict(item) /\ "key" \in DOMAIN item /\ item.key = word

\* The value of the last item of the content with the key; the empty tuple
\* without such an item
LastValue(content, word) ==
    LET found == { k \in 1..Len(content) : HasKey(content[k], word) }
    IN  IF found = {} THEN <<>>
        ELSE <<content[CHOOSE k \in found : \A j \in found : j <= k].value>>

\* Some item with the key has a value that is no dict: value.get raises
\* AttributeError
GetFails(content, word) ==
    \E k \in 1..Len(content) :
        HasKey(content[k], word) /\ ~isinstance_dict(content[k].value)

\* item.get('value', {}).get('items', []) of the last item with the key
LastItems(content, word) ==
    LET value == LastValue(content, word)
    IN  IF value # <<>> /\ "items" \in DOMAIN value[1] THEN value[1].items
        ELSE <<>>

parse_agent_coordination(text, tok) ==
    Then(Clause(text, eat(text, tok, "AGENT_COORDINATION"), Word.coordinator, "COLON"),
         LAMBDA coordinator :
    Then(parse_block_content(text, coordinator.tok), LAMBDA content :
    IF Raised(content.tok) THEN Result(None, content.tok)
    ELSE IF GetFails(content.value, Word.participants)
            \/ GetFails(content.value, Word.constraints)
         THEN Result(None, raise(content.tok))
    ELSE Result([node_type |-> "BOCAgentCoordination",
                 coordinator |-> coordinator.value,
                 participants |-> LastItems(content.value, Word.participants),
                 coordination_type |-> LastValue(content.value, Word.type),
                 constraints |-> LastItems(content.value, Word.constraints)],
                content.tok)))

parse_provenance(text, tok) ==
    Then(parse_block_content(text, eat(text, tok, "PROVENANCE")), LAMBDA content :
    IF Raised(content.tok) THEN Result(None, content.tok)
    ELSE IF GetFails(content.value, Word.chain_of_custody)
         THEN Result(None, raise(content.tok))
    ELSE Result([node_type |-> "BOCProvenance",
                 source |-> LastValue(content.value, Word.source),
                 timestamp |-> LastValue(content.value, Word.timestamp),
                 chain_of_custody |->
                     LastItems(content.value, Word.chain_of_custody)],
                content.tok))

parse_assignment(text, tok) ==
    Then(parse_expression(text, eat(text, eat(text, tok, "IDENTIFIER"), "ASSIGN")),
         LAMBDA value :
    Result([type |-> "Assignment", key |-> tok.value, value |-> value.value],
           value.tok))

\* _parse_uncertainty_string, for a str that contains the sign
_parse_uncertainty_string(uncertainty_str) ==
    IF uncertainty_str.value[1] = PlusMinus
    THEN <<[type |-> "UncertaintyValue",
            absolute_uncertainty |->
                float(SubSeq(uncertainty_str.value, 2,
                             Len(uncertainty_str.value))).value,
            relative_uncertainty |-> None]>>
    ELSE <<>>

\* The input uncertainties one 'input_uncertainties' item adds: those of its
\* properties whose value is a str with the sign in it
UncertainInputs(item) ==
    IF isinstance_dict(item.value) /\ "properties" \in DOMAIN item.value
    THEN LET properties == item.value.properties
             named == { var_name \in DOMAIN properties :
                            /\ isinstance_str(properties[var_name])
                            /\ Contains(properties[var_name].value, <<PlusMinus>>) }
         IN  [var_name \in named |-> _parse_uncertainty_string(properties[var_name])]
    ELSE <<>>

\* The 'formula' and the input uncertainties of the content, and the analysis
\* that is filled in when both are there
uncertainty_analysis(content) ==
    LET formula == LastValue(content, Word.formula)
        items == { k \in 1..Len(content) :
                       HasKey(content[k], Word.input_uncertainties) }
        input_uncertainties ==
            [var_name \in UNION { DOMAIN UncertainInputs(content[k]) : k \in items } |->
                UncertainInputs(content[CHOOSE k \in items :
                    /\ var_name \in DOMAIN UncertainInputs(content[k])
                    /\ \A j \in items :
                          var_name \in DOMAIN UncertainInputs(content[j]) => j <= k])[var_name]]
    IN  IF formula # <<>> /\ DOMAIN input_uncertainties # {}
        THEN [formula |-> formula, input_uncertainties |-> input_uncertainties,
              propagation_possible |-> TRUE]
        ELSE <<>>

parse_calculate_with_uncertainty(text, tok) ==
    Then(AttributesAndBlock(text, tok, "CALCULATE_WITH_UNCERTAINTY"), LAMBDA r :
    IF Raised(r.tok) THEN Result(None, r.tok)
    ELSE Result([type |-> "CalculateWithUncertainty",
                 attributes |-> r.attributes, content |-> r.content,
                 uncertainty_analysis |-> uncertainty_analysis(r.content)],
                r.tok))

\* parse_statement at time t: the method of the first token's type
parse_statement(text, tok, t) ==
    CASE tok.type = "BELIEF" -> parse_belief(text, tok)
      [] tok.type = "REASONING_CONTEXT" -> parse_reasoning_context(text, tok)
      [] tok.type = "INTENT" -> parse_intent(text, tok)
      [] tok.type = "SHARED_STATE" -> parse_shared_state(text, tok)
      [] tok.type = "SELF_CAPABILITY" -> parse_self_capability(text, tok)
      [] tok.type = "CALCULATE_WITH_UNCERTAINTY" ->
             parse_calculate_with_uncertainty(text, tok)
      [] tok.type = "STRUCTURED_KNOWLEDGE" -> parse_structured_knowledge(text, tok)
      [] tok.type = "UPDATE_BELIEF" -> parse_update_belief(text, tok, t)
      [] tok.type = "CONFIDENCE_DECAY" -> parse_confidence_decay(text, tok)
      [] tok.type = "AGENT_COORDINATION" -> parse_agent_coordination(text, tok)
      [] tok.type = "PROVENANCE" -> parse_provenance(text, tok)
      [] tok.type = "IDENTIFIER" -> parse_assignment(text, tok)
      [] OTHER -> Result(None, raise(tok))

RECURSIVE statements_from(_, _, _, _)
\* The loop of parse_program: statements up to EOF, or up to an exception
statements_from(text, tok, statements, t) ==
    IF Raised(tok) \/ tok.type = "EOF" THEN Result(statements, tok)
    ELSE Then(parse_statement(text, tok, t), LAMBDA stmt :
         statements_from(text, stmt.tok, Append(statements, stmt.value), t))

\* What parse_program hands to its caller: the program, or the exception and
\* nothing else
BOCProgram(statements) ==
    [type |-> "BOCProgram", raised |-> None, statements |-> statements]

Failed == [type |-> "NoneType", raised |-> Exception, statements |-> <<>>]

\* Variant: the statements parsed before the exception are handed back
parse_program_recovering(text, tok, t) ==
    Then(statements_from(text, tok, <<>>, t), LAMBDA r :
    BOCProgram(IF Raised(r.tok) THEN SubSeq(r.value, 1, Len(r.value) - 1)
               ELSE r.value))

parse_program(text, tok, t) ==
    Then(statements_from(text, tok, <<>>, t), LAMBDA r :
    IF Raised(r.tok) THEN Failed ELSE BOCProgram(r.value))

\* parse_boc_code at time t: a lexer on the code, a parser on the lexer with
\* its first token read, and the program parsed
parse_boc_code(code, t) == parse_program(code, get_next_token(code, 1), t)

----------------------------------------------------------------------------
(* The texts given to the parser *)

\* The statements of the programs of boc_belief_test.py and
\* boc_enhanced_test.py, with shorter names and texts, and one statement of
\* each remaining form; kind is the node the statement stands for
Documented ==
    <<
      [kind |-> "BOCBelief",
       text |-> <<"b", "e", "l", "i", "e", "f", " ", "c", "o", "n", "f", "i",
           "d", "e", "n", "c", "e", "=", "0", ".", "8", "5", " ", "{", " ",
           "f", "a", "c", "t", ":", " ", "\"", "f", "\"", " ", "}">>],
      [kind |-> "BOCUpdateBelief",
       text |-> <<"u", "p", "d", "a", "t", "e", "_", "b", "e", "l", "i", "e",
           "f", " ", "b", "(", "0", ".", "4", ")", " ", "e", "v", "i", "d",
           "e", "n", "c", "e", ":", " ", "\"", "e", "\"">>],
      [kind |-> "BOCConfidenceDecay",
       text |-> <<"c", "o", "n", "f", "i", "d", "e", "n", "c", "e", "_", "d",
           "e", "c", "a", "y", " ", "b", "(", "\"", "l", "i", "n", "e", "a",
           "r", "(", "0", ".", "1", "/", "d", "a", "y", ")", "\"", ")", " ",
           "p", "e", "r", "i", "o", "d", ":", " ", "\"", "7", "_", "d", "a",
           "y", "s", "\"">>],
      [kind |-> "BOCAgentCoordination",
       text |-> <<"a", "g", "e", "n", "t", "_", "c", "o", "o", "r", "d", "i",
           "n", "a", "t", "i", "o", "n", " ", "{", " ", "t", "y", "p", "e",
           ":", " ", "\"", "c", "\"", " ", "p", "a", "r", "t", "i", "c", "i",
           "p", "a", "n", "t", "s", ":", " ", "[", "\"", "a", "\"", ",", " ",
           "\"", "b", "\"", "]", " ", "}">>],
      [kind |-> "BOCStructuredKnowledge",
       text |-> <<"s", "t", "r", "u", "c", "t", "u", "r", "e", "d", "_", "k",
           "n", "o", "w", "l", "e", "d", "g", "e", " ", "{", " ", "e", "n",
           "t", "i", "t", "i", "e", "s", ":", " ", "[", "e", "n", "t", "i",
           "t", "y", "(", "\"", "t", "\"", ",", " ", "{", "u", "n", "i", "t",
           "s", ":", " ", "\"", "c", "\"", ",", " ", "c", "o", "n", "f", "i",
           "d", "e", "n", "c", "e", ":", " ", "0", ".", "9", "8", "}", ")",
           "]", " ", "}">>],
      [kind |-> "BOCProvenance",
       text |-> <<"p", "r", "o", "v", "e", "n", "a", "n", "c", "e", " ", "{",
           " ", "s", "o", "u", "r", "c", "e", ":", " ", "\"", "n", "\"", " ",
           "c", "h", "a", "i", "n", "_", "o", "f", "_", "c", "u", "s", "t",
           "o", "d", "y", ":", " ", "[", "\"", "s", "\"", "]", " ", "}">>],
      [kind |-> "CalculateWithUncertainty",
       text |-> <<"c", "a", "l", "c", "u", "l", "a", "t", "e", "_", "w", "i",
           "t", "h", "_", "u", "n", "c", "e", "r", "t", "a", "i", "n", "t",
           "y", " ", "{", " ", "f", "o", "r", "m", "u", "l", "a", ":", " ",
           "\"", "f", "\"", " ", "i", "n", "p", "u", "t", "_", "u", "n", "c",
           "e", "r", "t", "a", "i", "n", "t", "i", "e", "s", ":", " ", "{",
           "b", "a", "s", "e", ":", " ", PlusMinus, "0", ".", "1", ",", " ",
           "r", "a", "t", "e", ":", " ", PlusMinus, "0", ".", "0", "5", "}",
           " ", "}">>],
      [kind |-> "BOCIntent",
       text |-> <<"i", "n", "t", "e", "n", "t", " ", "t", "o", "_", "p", "e",
           "r", "f", "o", "r", "m", ":", " ", "\"", "c", "\"", " ", "{", " ",
           "c", "o", "n", "s", "t", "r", "a", "i", "n", "t", "s", ":", " ",
           "{", "d", "u", "r", "a", "t", "i", "o", "n", ":", " ", "\"", "d",
           "\"", " ", "l", "o", "c", "a", "t", "i", "o", "n", ":", " ", "\"",
           "v", "\"", "}", " ", "p", "r", "i", "o", "r", "i", "t", "y", ":",
           " ", "\"", "h", "\"", " ", "}">>],
      [kind |-> "BOCReasoningContext",
       text |-> <<"/", "/", " ", "n", "o", "t", "e", "\n", "r", "e", "a",
           "s", "o", "n", "i", "n", "g", "_", "c", "o", "n", "t", "e", "x",
           "t", " ", "{", " ", "k", ":", " ", "1", " ", "}">>],
      [kind |-> "SharedState",
       text |-> <<"s", "h", "a", "r", "e", "d", "_", "s", "t", "a", "t", "e",
           " ", "{", " ", "k", ":", " ", "t", "r", "u", "e", " ", "}">>],
      [kind |-> "SelfCapability",
       text |-> <<"s", "e", "l", "f", "_", "c", "a", "p", "a", "b", "i", "l",
           "i", "t", "y", " ", "{", " ", "k", ":", " ", "x", " ", "}">>],
      [kind |-> "Assignment",
       text |-> <<"x", " ", "=", " ", "1">>]
    >>

\* Texts that are no statement: a block left open, a closing brace alone, a
\* clause without its sign, an update without parentheses, a character the
\* lexer does not know, a block without keyword
Broken ==
    <<
      <<"b", "e", "l", "i", "e", "f", " ", "{">>,
      <<"}">>,
      <<"b", "e", "l", "i", "e", "f", " ", "c", "o", "n", "f", "i", "d", "e",
          "n", "c", "e", " ", "0", ".", "8", "5", " ", "{", " ", "}">>,
      <<"u", "p", "d", "a", "t", "e", "_", "b", "e", "l", "i", "e", "f", " ",
          "b", " ", "0", ".", "4">>,
      <<"#">>,
      <<"{", " ", "k", ":", " ", "1", " ", "}">>
    >>

MaxStatements == 2

RECURSIVE Lines(_)
\* The texts, one per line
Lines(texts) ==
    IF Len(texts) = 1 THEN texts[1]
    ELSE texts[1] \o <<"\n">> \o Lines(Tail(texts))

\* The programs of up to MaxStatements documented statements: the text, and
\* the kinds of its statements in order
DocumentedPrograms ==
    { [text |-> Lines([k \in DOMAIN program |-> Documented[program[k]].text]),
       kinds |-> [k \in DOMAIN program |-> Documented[program[k]].kind]] :
        program \in UNION { [1..n -> DOMAIN Documented] : n \in 1..MaxStatements } }

\* The texts of up to MaxStatements lines, each a documented statement or a
\* broken one
Programs ==
    LET lines == { Documented[k].text : k \in DOMAIN Documented }
                 \cup { Broken[k] : k \in DOMAIN Broken }
    IN  { Lines(program) :
            program \in UNION { [1..n -> lines] : n \in 1..MaxStatements } }

MaxTokens == 4

\* The texts of up to MaxTokens of these pieces
Scraps ==
    LET pieces == {
            <<"b", "e", "l", "i", "e", "f", " ">>,
            <<"{", " ">>, <<"}", " ">>, <<"k", ":", " ">>, <<"1", " ">>, <<"x", " ", "=", " ">> }
    IN  { Lines(scrap) \o <<" ">> :
            scrap \in UNION { [1..n -> pieces] : n \in 1..MaxTokens } }

\* The keywords of the block statements that take attributes
BlockKeywords ==
    { Word.reasoning_context, Word.intent, Word.shared_state,
      Word.self_capability, Word.calculate_with_uncertainty,
      Word.structured_knowledge }

\* Attribute prefixes, each with the attributes it is written to give:
\* @p(1), @flag, and @p(1) @q("x")
Prefixes ==
    { [text |-> <<"@", "p", "(", "1", ")">>,
       attributes |-> Put(<<>>, <<"p">>, Literal(<<"1">>, "NUMBER"))],
      [text |-> <<"@", "f", "l", "a", "g">>,
       attributes |-> Put(<<>>, <<"f", "l", "a", "g">>, True)],
      [text |-> <<"@", "p", "(", "1", ")", " ", "@", "q", "(", "\"", "x", "\"", ")">>,
       attributes |-> Put(Put(<<>>, <<"p">>, Literal(<<"1">>, "NUMBER")),
                          <<"q">>, Literal(<<"x">>, "STRING"))] }

\* The block statements written with attribute prefixes before the body
\* { k: 1 }
Attributed ==
    { [text |-> keyword \o <<" ">> \o prefix.text
                    \o <<" ", "{", " ", "k", ":", " ", "1", " ", "}">>,
       attributes |-> prefix.attributes] :
        keyword \in BlockKeywords, prefix \in Prefixes }

Sources == Programs \cup Scraps \cup { statement.text : statement \in Attributed }

----------------------------------------------------------------------------
(* The state machine: a caller makes API calls one after another, and time
   passes between them *)

Call(op, name, arg, evidence, ret) ==
    [op |-> op, name |-> name, arg |-> arg, evidence |-> evidence, ret |-> ret]

\* Room for one more item in the history of `name`, if that belief exists
Room(name) ==
    name \in DOMAIN beliefs =>
        Len(heap[beliefs[name].evidence_history]) < MaxHist

\* The state after a call with outcome r
Done(op, name, arg, evidence, r) ==
    /\ beliefs' = r.beliefs
    /\ heap' = Collect(r.heap, r.beliefs, r.ret.dict)
    /\ last' = Call(op, name, arg, evidence, r.ret)
    /\ calls' = calls + 1
    /\ now' = now
    /\ UNCHANGED others

\* A thread that has not called yet
Idle ==
    [pc |-> "idle", name |-> None, new_confidence |-> 0, evidence |-> <<>>,
     seen |-> <<>>, read_at |-> 0, decayed_confidence |-> 0, weighed_at |-> 0,
     combined_confidence |-> 0, ret |-> ReturnNone]

Threads == {1, 2}

\* No text parsed yet
NotParsed == [type |-> "NoneType", raised |-> None, statements |-> <<>>]

Init ==
    /\ boc_code = <<>>
    /\ ast = NotParsed
    /\ node = NoneValue
    /\ current_token = NoneValue
    /\ propagated = NoneValue
    /\ translation = NoneValue
    /\ threads = [i \in Threads |-> Idle]
    /\ beliefs = <<>>
    /\ heap = <<>>
    /\ now = 0
    /\ calls = 0
    /\ last = Call("__init__", None, 0, <<>>, ReturnNone)

CreateBelief ==
    /\ calls < MaxCalls
    /\ \E call \in CreateCalls :
          LET name == call[1]
              in == call[2]
          IN  Done("create_belief", name, in.initial_confidence, <<>>,
                   create_belief(beliefs, heap, name, in, now))

UpdateBelief ==
    /\ calls < MaxCalls
    /\ \E call \in UpdateCalls(now) :
          LET name == call[1]
              new_confidence == call[2][1]
              evidence == call[2][2]
          IN  /\ evidence # <<>> => Room(name)
              /\ Done("update_belief", name, new_confidence, evidence,
                      update_belief(beliefs, heap, name, new_confidence,
                                    evidence, now))

GetCurrentConfidence ==
    /\ calls < MaxCalls
    /\ \E name \in Names :
          Done("get_current_confidence", name, 0, <<>>,
               get_current_confidence(beliefs, heap, name, now))

GetAllBeliefs ==
    /\ calls < MaxCalls
    /\ \E apply \in BOOLEAN :
          Done("get_all_beliefs", None, IF apply THEN 1 ELSE 0, <<>>,
               get_all_beliefs(beliefs, heap, apply, now))

AddContradictoryEvidence ==
    /\ calls < MaxCalls
    /\ \E call \in EvidenceCalls(now) :
          LET name == call[1]
              evidence == call[2]
          IN  /\ Room(name)
              /\ Done("add_contradictory_evidence", name, 0, <<evidence>>,
                      add_contradictory_evidence(beliefs, heap, name,
                                                 evidence, now))

ResolveConflicts ==
    /\ calls < MaxCalls
    /\ \E name \in Names :
          Done("resolve_conflicts", name, 0, <<>>,
               resolve_conflicts(beliefs, heap, name, now))

\* An hour passes
Tick ==
    /\ now < MaxTime
    /\ now' = now + 1
    /\ UNCHANGED <<beliefs, heap, calls, last>>
    /\ UNCHANGED others

Next ==
    \/ CreateBelief
    \/ UpdateBelief
    \/ GetCurrentConfidence
    \/ GetAllBeliefs
    \/ AddContradictoryEvidence
    \/ ResolveConflicts
    \/ Tick

Spec == Init /\ [][Next]_vars

----------------------------------------------------------------------------
(* The caller of get_all_beliefs(apply_decay=True) keeps the dictionary it got
   and changes the records in it. Each returned record is
   built from belief.__dict__: a new object whose fields are the stored
   record's field values, so its evidence_history is the stored list itself.
   (metadata, a dictionary, is shared in the same way; the model keeps it as
   a value and follows the list.) *)

\* The records the caller holds: those the last call returned
Held ==
    IF last.op = "get_all_beliefs" /\ last.arg = 1 THEN DOMAIN last.ret.dict
    ELSE {}

\* returned[name].evidence_history.append(evidence)
CallerAppends ==
    \E name \in Held :
        LET ref == last.ret.dict[name].evidence_history
        IN  /\ Len(heap[ref]) < MaxHist
            /\ heap' = [heap EXCEPT ![ref] = Appended(@, e1(now))]
            /\ UNCHANGED <<beliefs, now, calls, last>>
            /\ UNCHANGED others

\* returned[name].current_confidence = 0.0
CallerSetsConfidence ==
    \E name \in Held :
        /\ last.ret.dict[name].current_confidence # 0
        /\ last' = [last EXCEPT !.ret.dict[name].current_confidence = 0]
        /\ UNCHANGED <<beliefs, heap, now, calls>>
        /\ UNCHANGED others

NextAlias ==
    \/ CreateBelief
    \/ UpdateBelief
    \/ GetCurrentConfidence
    \/ GetAllBeliefs
    \/ AddContradictoryEvidence
    \/ ResolveConflicts
    \/ Tick
    \/ CallerAppends
    \/ CallerSetsConfidence

SpecAlias == Init /\ [][NextAlias]_vars

----------------------------------------------------------------------------
(* Two threads call update_belief on one BeliefManager. The method takes no
   lock, so the calls interleave between its statements: a call reads the
   decayed confidence (lines 112-121), then appends its evidence and blends
   (124-132), then writes the blend and the time into the record and returns
   (134-138). *)

\* Lines 112-121 in thread i: the soft failure, the range error, or the read
\* of the decayed confidence
Begin(i) ==
    /\ threads[i].pc = "idle"
    /\ calls < MaxCalls
    /\ \E call \in UpdateCalls(now) :
          LET name == call[1]
              new_confidence == call[2][1]
              evidence == call[2][2]
              early == IF name \notin DOMAIN beliefs THEN ReturnBool(FALSE)
                       ELSE IF ~NewConfidenceInRange(new_confidence)
                            THEN Raise(ValueError)
                            ELSE ReturnNone
              started == [Idle EXCEPT !.name = name,
                                      !.new_confidence = new_confidence,
                                      !.evidence = evidence]
          IN  /\ calls' = calls + 1
              /\ IF early # ReturnNone
                 THEN /\ threads' = [threads EXCEPT ![i] =
                                        [started EXCEPT !.pc = "done",
                                                        !.ret = early]]
                      /\ last' = Call("update_belief", name, new_confidence,
                                      evidence, early)
                 ELSE /\ threads' = [threads EXCEPT ![i] =
                             [started EXCEPT
                                 !.pc = "read",
                                 !.seen = <<beliefs[name]>>,
                                 !.read_at = now,
                                 !.decayed_confidence =
                                     apply_decay(beliefs[name], now).ret]]
                      /\ UNCHANGED last
    /\ UNCHANGED <<beliefs, heap, now, boc_code, ast, node>>
    /\ UNCHANGED <<current_token, propagated, translation>>

\* Lines 124-132 in thread i: the evidence appended and the blend computed
Blend(i) ==
    LET thread == threads[i]
        ref == beliefs[thread.name].evidence_history
    IN  /\ thread.pc = "read"
        /\ thread.evidence # <<>> => Len(heap[ref]) < MaxHist
        /\ heap' = IF thread.evidence # <<>>
                   THEN [heap EXCEPT ![ref] = Appended(@, thread.evidence[1])]
                   ELSE heap
        /\ threads' = [threads EXCEPT ![i] =
               [thread EXCEPT
                   !.pc = "blended",
                   !.weighed_at = now,
                   !.combined_confidence =
                       IF thread.evidence # <<>>
                       THEN _combine_confidences(
                                thread.decayed_confidence, thread.new_confidence,
                                _calculate_evidence_weight(thread.evidence[1], now))
                       ELSE thread.new_confidence]]
        /\ UNCHANGED <<beliefs, now, calls, last, boc_code, ast, node>>
        /\ UNCHANGED <<current_token, propagated, translation>>

\* Variant: the write blends into what the record holds when it is written
WrittenOverStored(thread, belief, t) ==
    Clamp(belief,
          IF thread.evidence # <<>>
          THEN _combine_confidences(
                   apply_decay(belief, t).ret, thread.new_confidence,
                   _calculate_evidence_weight(thread.evidence[1], thread.weighed_at))
          ELSE thread.new_confidence)

\* Lines 134-135: what the thread writes is the blend it computed from its read
Written(thread, belief, t) == Clamp(belief, thread.combined_confidence)

\* Lines 134-138 in thread i: the write, and the return
Write(i) ==
    LET thread == threads[i]
        belief == beliefs[thread.name]
    IN  /\ thread.pc = "blended"
        /\ beliefs' = [beliefs EXCEPT ![thread.name] =
               [belief EXCEPT !.current_confidence = Written(thread, belief, now),
                              !.last_updated = now]]
        /\ threads' = [threads EXCEPT ![i] =
               [thread EXCEPT !.pc = "done", !.ret = ReturnBool(TRUE)]]
        /\ last' = Call("update_belief", thread.name, thread.new_confidence,
                        thread.evidence, ReturnBool(TRUE))
        /\ UNCHANGED <<heap, now, calls, boc_code, ast, node>>
        /\ UNCHANGED <<current_token, propagated, translation>>

\* The beliefs are made before the threads start
CreateBeliefFirst ==
    /\ \A i \in Threads : threads[i].pc = "idle"
    /\ CreateBelief

NextRace ==
    \/ CreateBeliefFirst
    \/ Tick
    \/ \E i \in Threads : Begin(i)
    \/ \E i \in Threads : Blend(i)
    \/ \E i \in Threads : Write(i)

SpecRace == Init /\ [][NextRace]_vars

----------------------------------------------------------------------------
(* A caller parses texts, and builds ConfidenceDecay nodes from strings *)

\* parse_boc_code(text) for one of the texts, once in a run since no call
\* leaves anything behind for the next; what it raises is kept in the place
\* of the program
ParseFrom(texts) ==
    /\ ast = NotParsed
    /\ \E text \in texts :
          /\ boc_code' = text
          /\ ast' = parse_boc_code(text, now)
    /\ UNCHANGED <<beliefs, heap, now, calls, last, threads, node>>
    /\ UNCHANGED <<current_token, propagated, translation>>

ParseBocCode == ParseFrom(Sources)

NextBoc ==
    \/ ParseBocCode
    \/ Tick

SpecBoc == Init /\ [][NextBoc]_vars

----------------------------------------------------------------------------
(* Properties *)

\* The evidence history of a stored belief
History(name) == heap[beliefs[name].evidence_history]

\* A stored belief with all it refers to
Stored(name) == [belief |-> beliefs[name], evidence_history |-> History(name)]

\* This step is an API call: last' tells which, with what, and what came back
IsCall(op) == calls' = calls + 1 /\ last'.op = op

\* The step leaves the store as it was: the same names, the same records
StoreUnchanged ==
    /\ DOMAIN beliefs' = DOMAIN beliefs
    /\ \A name \in DOMAIN beliefs : Stored(name)' = Stored(name)

InUnit(x) == 0 <= x /\ x <= Scale

\* Every Evidence of the history of `name` has its confidence in [0,1]
EvidenceInUnit(name) ==
    \A i \in 1..Len(History(name)) : InUnit(History(name)[i].confidence)

\* C1: as long as every Evidence given for a belief has its confidence in
\* [0,1], the stored current_confidence is within
\* [min_confidence, max_confidence] after every call.
C1_ConfidenceWithinBounds ==
    \A name \in DOMAIN beliefs :
        EvidenceInUnit(name) =>
            /\ beliefs[name].min_confidence <= beliefs[name].current_confidence
            /\ beliefs[name].current_confidence <= beliefs[name].max_confidence

\* add_contradictory_evidence has brought a belief down to its floor
C1_Witness ==
    /\ last.op = "add_contradictory_evidence"
    /\ last.name \in DOMAIN beliefs
    /\ EvidenceInUnit(last.name)
    /\ last.ret.float > 0
    /\ beliefs[last.name].initial_confidence > 0
    /\ beliefs[last.name].current_confidence = beliefs[last.name].min_confidence

\* C2: create_belief with c in [0,1] stores a record whose initial and
\* current confidence are c; with c outside it raises ValueError and the
\* store, a record of that name included, is as before.
C2_CreateStoresOrRejects ==
    [][IsCall("create_belief") =>
          IF InUnit(last'.arg)
          THEN /\ last'.ret.kind = "BeliefState"
               /\ last'.name \in DOMAIN beliefs'
               /\ beliefs'[last'.name].initial_confidence = last'.arg
               /\ beliefs'[last'.name].current_confidence = last'.arg
          ELSE /\ last'.ret.kind = ValueError
               /\ StoreUnchanged]_vars

\* create_belief below 0 was rejected on a name that has a record with history
C2_Witness ==
    /\ last.op = "create_belief"
    /\ last.arg < 0
    /\ last.ret.kind = ValueError
    /\ last.name \in DOMAIN beliefs
    /\ History(last.name) # <<>>

\* C3: update_belief on a stored belief with new_confidence outside [0,1]
\* raises ValueError and leaves the record as it was, evidence or not.
C3_UpdateRejectsOutOfRange ==
    [][(/\ IsCall("update_belief")
        /\ last'.name \in DOMAIN beliefs
        /\ ~InUnit(last'.arg)) =>
          /\ last'.ret.kind = ValueError
          /\ StoreUnchanged]_vars

\* update_belief above 1 with evidence was rejected on a stored belief
C3_Witness ==
    /\ last.op = "update_belief"
    /\ last.arg > Scale
    /\ last.evidence # <<>>
    /\ last.ret.kind = ValueError
    /\ last.name \in DOMAIN beliefs

\* C4: on a name that is not in the store update_belief returns False,
\* get_current_confidence None, add_contradictory_evidence and
\* resolve_conflicts 0; none raises and none changes the store.
C4_UnknownNameIsSoft ==
    [][(/\ calls' = calls + 1
        /\ last'.name \notin DOMAIN beliefs
        /\ last'.op \in {"update_belief", "get_current_confidence",
                         "add_contradictory_evidence", "resolve_conflicts"}) =>
          /\ StoreUnchanged
          /\ last'.op = "update_belief" =>
                 last'.ret.kind = "bool" /\ last'.ret.bool = FALSE
          /\ last'.op = "get_current_confidence" => last'.ret.kind = "None"
          /\ last'.op \in {"add_contradictory_evidence", "resolve_conflicts"} =>
                 last'.ret.kind = "float" /\ last'.ret.float = 0]_vars

\* update_belief with new_confidence above 1 returned False on an unknown
\* name while the store held another belief
C4_Witness ==
    /\ last.op = "update_belief"
    /\ last.arg > Scale
    /\ last.ret.kind = "bool" /\ last.ret.bool = FALSE
    /\ last.name \notin DOMAIN beliefs
    /\ DOMAIN beliefs # {}

\* C5: apply_decay leaves the belief it is given as it was, whatever time has
\* passed, and get_current_confidence leaves the store as it was.
C5_DecayIsPure ==
    [][/\ \A name \in DOMAIN beliefs :
             apply_decay(beliefs[name], now).belief = beliefs[name]
       /\ IsCall("get_current_confidence") => StoreUnchanged]_vars

\* get_current_confidence returned a decayed value, below the stored one
C5_Witness ==
    /\ last.op = "get_current_confidence"
    /\ last.name \in DOMAIN beliefs
    /\ last.ret.kind = "float"
    /\ last.ret.float < beliefs[last.name].current_confidence
    /\ now > beliefs[last.name].last_updated

----------------------------------------------------------------------------
(* The evidence weight and the blend, as the specification states them *)

RecencyFactor(age_hours) ==
    CASE age_hours < 1 -> 1000
      [] 1 <= age_hours /\ age_hours < 24 -> 800
      [] 24 <= age_hours /\ age_hours < 168 -> 600
      [] 168 <= age_hours -> 400

PolarityFactor(evidence_type) ==
    CASE evidence_type = "positive" -> 1200
      [] evidence_type = "negative" -> 1100
      [] evidence_type = "neutral" -> 800
      [] evidence_type = "contradictory" -> 500

\* evidence.weight * recency factor * polarity factor, at time t
StatedWeight(evidence, t) ==
    (((evidence.weight * RecencyFactor(t - evidence.timestamp)) \div Scale)
        * PolarityFactor(evidence.evidence_type)) \div Scale

\* w = weight/(weight+1) if weight > 1.0 else 0.5
StatedBlend(weight) ==
    IF weight > Scale THEN (weight * Scale) \div (weight + Scale) ELSE 500

\* The sum of the stated weights of the items of one polarity
RECURSIVE StatedSum(_, _, _, _)
StatedSum(history, i, evidence_type, t) ==
    IF i > Len(history) THEN 0
    ELSE (IF history[i].evidence_type = evidence_type
          THEN StatedWeight(history[i], t) ELSE 0)
         + StatedSum(history, i + 1, evidence_type, t)

Positive(name, t) == StatedSum(History(name), 1, "positive", t)
Negative(name, t) == StatedSum(History(name), 1, "negative", t)
Contradictory(name, t) == StatedSum(History(name), 1, "contradictory", t)

\* C6: update_belief on a stored belief with c in [0,1] stores clamp(c)
\* without evidence and clamp((1-w)*decayed + w*c) with evidence, decayed
\* being apply_decay of the belief before the call and w the stated blend of
\* the stated evidence weight; it sets last_updated to now and returns True.
C6_UpdateBlends ==
    [][\A name \in DOMAIN beliefs :
          (IsCall("update_belief") /\ last'.name = name /\ InUnit(last'.arg)) =>
              LET c == last'.arg
                  belief == beliefs[name]
                  decayed == apply_decay(belief, now).ret
                  w == StatedBlend(StatedWeight(last'.evidence[1], now))
                  combined == IF last'.evidence = <<>> THEN c
                              ELSE ((Scale - w) * decayed) \div Scale
                                   + (w * c) \div Scale
              IN  /\ name \in DOMAIN beliefs'
                  /\ beliefs'[name].current_confidence =
                         Max(belief.min_confidence,
                             Min(belief.max_confidence, combined))
                  /\ beliefs'[name].last_updated = now'
                  /\ last'.ret.kind = "bool" /\ last'.ret.bool = TRUE]_vars

\* update_belief has blended strong evidence (weight above 1) into a belief
\* that had been decaying for a while
C6_Witness ==
    /\ last.op = "update_belief"
    /\ last.ret.bool = TRUE
    /\ last.evidence # <<>>
    /\ last.name \in DOMAIN beliefs
    /\ StatedWeight(last.evidence[1], now) > Scale
    /\ beliefs[last.name].last_updated = now
    /\ beliefs[last.name].created_at < now
    /\ beliefs[last.name].current_confidence # last.arg

\* C7: add_contradictory_evidence on a stored belief appends the evidence to
\* the end of the history, sets current_confidence to
\* max(min_confidence, current_confidence - 0.3 * evidence.confidence) and
\* returns 0.3 * evidence.confidence, 0.255 for a confidence of 0.85.
C7_ContradictoryEvidencePenalty ==
    [][\A name \in DOMAIN beliefs :
          (IsCall("add_contradictory_evidence") /\ last'.name = name) =>
              LET evidence == last'.evidence[1]
                  penalty == (evidence.confidence * 300) \div Scale
              IN  /\ name \in DOMAIN beliefs'
                  /\ History(name)' = Append(History(name), evidence)
                  /\ beliefs'[name].current_confidence =
                         Max(beliefs[name].min_confidence,
                             beliefs[name].current_confidence - penalty)
                  /\ last'.ret.kind = "float" /\ last'.ret.float = penalty
                  /\ evidence.confidence = 850 => last'.ret.float = 255]_vars

\* The evidence of confidence 0.85 was added after another item, for 0.255
C7_Witness ==
    /\ last.op = "add_contradictory_evidence"
    /\ last.name \in DOMAIN beliefs
    /\ last.evidence[1].confidence = 850
    /\ last.ret.float = 255
    /\ Len(History(last.name)) = 2
    /\ History(last.name)[2] = last.evidence[1]
    /\ History(last.name)[1] # last.evidence[1]

\* C8: resolve_conflicts on a stored belief multiplies current_confidence by
\* 0.5 if the contradictory weight of the history is greater than the
\* positive plus the negative weight, otherwise by 0.8 if the contradictory
\* weight is greater than 0, and returns the stored confidence.
C8_ResolveByWeights ==
    [][\A name \in DOMAIN beliefs :
          (IsCall("resolve_conflicts") /\ last'.name = name) =>
              LET before == beliefs[name].current_confidence
                  mostly == Contradictory(name, now)
                                > Positive(name, now) + Negative(name, now)
              IN  /\ name \in DOMAIN beliefs'
                  /\ mostly => beliefs'[name].current_confidence
                                   = (before * 500) \div Scale
                  /\ (~mostly /\ Contradictory(name, now) > 0) =>
                         beliefs'[name].current_confidence
                             = (before * 800) \div Scale
                  /\ last'.ret.kind = "float"
                  /\ last'.ret.float = beliefs'[name].current_confidence]_vars

\* resolve_conflicts found contradictory weight, but no more of it than
\* positive and negative weight
C8_Witness ==
    /\ last.op = "resolve_conflicts"
    /\ last.name \in DOMAIN beliefs
    /\ Contradictory(last.name, now) > 0
    /\ Positive(last.name, now) > 0
    /\ Contradictory(last.name, now)
           <= Positive(last.name, now) + Negative(last.name, now)
    /\ last.ret.float = beliefs[last.name].current_confidence
    /\ last.ret.float > 0

\* C9: resolve_conflicts changes no field of the record, last_updated
\* included, when the contradictory weight is neither greater than the
\* positive plus the negative weight nor greater than 0; the confidence
\* get_current_confidence reports is the same before and after.
C9_ResolveIsNoOpOtherwise ==
    [][\A name \in DOMAIN beliefs :
          (/\ IsCall("resolve_conflicts") /\ last'.name = name
           /\ ~(Contradictory(name, now)
                    > Positive(name, now) + Negative(name, now))
           /\ ~(Contradictory(name, now) > 0)) =>
              /\ StoreUnchanged
              /\ get_current_confidence(beliefs', heap', name, now').ret
                     = get_current_confidence(beliefs, heap, name, now).ret]_vars

\* C10: the evidence history of a belief that is not re-created only grows at
\* its end: an update_belief with evidence that is carried out and an
\* add_contradictory_evidence append the one item they are given, and every
\* other step leaves the history as it was.
C10_HistoryAppendOnly ==
    [][\A name \in DOMAIN beliefs :
          ~(IsCall("create_belief") /\ last'.name = name) =>
              /\ name \in DOMAIN beliefs'
              /\ IF /\ calls' = calls + 1
                    /\ last'.name = name
                    /\ \/ last'.op = "add_contradictory_evidence"
                       \/ /\ last'.op = "update_belief"
                          /\ last'.evidence # <<>>
                          /\ last'.ret.kind = "bool"
                 THEN History(name)' = Append(History(name), last'.evidence[1])
                 ELSE History(name)' = History(name)]_vars

\* A history of two items, the first from update_belief and the second from
\* add_contradictory_evidence, seen after a later call that appends nothing
C10_Witness ==
    /\ last.op \in {"resolve_conflicts", "get_all_beliefs",
                    "get_current_confidence"}
    /\ "a" \in DOMAIN beliefs
    /\ Len(History("a")) = 2
    /\ History("a")[1].content = "e1"
    /\ History("a")[2].content = "e3"

\* The record create_belief stores for the input `in` at time t: nothing but
\* the input and the time in it, and no evidence
Fresh(name, in, t) ==
    [belief |-> [name |-> name,
                 initial_confidence |-> in.initial_confidence,
                 current_confidence |-> in.initial_confidence,
                 created_at |-> t, last_updated |-> t,
                 decay_function |-> in.decay_function,
                 decay_rate |-> in.decay_rate,
                 decay_period |-> in.decay_period,
                 evidence_history |-> beliefs[name].evidence_history,
                 metadata |-> in.metadata,
                 min_confidence |-> 0, max_confidence |-> Scale,
                 active |-> TRUE],
     evidence_history |-> <<>>]

\* C11: create_belief with a valid confidence on a name that already has a
\* record replaces it without merging: the record afterwards is the fresh
\* record of one of the inputs of that confidence (empty history, current =
\* initial = the new value, created_at = last_updated = now, the given decay
\* settings and metadata), and the records of the other names are unchanged.
C11_RecreateReplaces ==
    [][\A name \in DOMAIN beliefs :
          (IsCall("create_belief") /\ last'.name = name /\ InUnit(last'.arg)) =>
              /\ DOMAIN beliefs' = DOMAIN beliefs
              /\ \E call \in CreateCalls :
                    /\ call[1] = name
                    /\ call[2].initial_confidence = last'.arg
                    /\ Stored(name)' = Fresh(name, call[2], now)'
              /\ \A other \in DOMAIN beliefs \ {name} :
                    Stored(other)' = Stored(other)]_vars

\* create_belief has just stored a record under the only name of the store, an
\* hour after the start, and its evidence list is not the first list made:
\* the name had a record before
C11_Witness ==
    /\ last.op = "create_belief"
    /\ last.ret.kind = "BeliefState"
    /\ DOMAIN beliefs = {last.name}
    /\ beliefs[last.name].evidence_history # 1
    /\ History(last.name) = <<>>
    /\ beliefs[last.name].created_at = now
    /\ now > 0

\* This step is the caller changing a record that get_all_beliefs returned
CallerChanges ==
    /\ calls' = calls
    /\ now' = now
    /\ last.op = "get_all_beliefs"
    /\ last.arg = 1

\* C12: get_all_beliefs with decay applied leaves every stored record as it
\* was, and no change a caller makes to a returned record (its
\* current_confidence, its evidence_history) changes a stored record.
C12_ProjectionIsPure ==
    [][((IsCall("get_all_beliefs") /\ last'.arg = 1) \/ CallerChanges)
          => StoreUnchanged]_vars

\* What the update of thread i alone makes of the record the thread read
Alone(i) ==
    LET thread == threads[i]
        original == thread.seen[1]
    IN  Clamp(original,
              _combine_confidences(
                  apply_decay(original, thread.read_at).ret,
                  thread.new_confidence,
                  _calculate_evidence_weight(thread.evidence[1],
                                             thread.weighed_at)))

\* Both threads have updated the same belief with evidence, each after reading
\* the same original record, and both calls are over
Raced ==
    /\ \A i \in Threads :
          /\ threads[i].pc = "done"
          /\ threads[i].seen # <<>>
          /\ threads[i].evidence # <<>>
    /\ threads[1].name = threads[2].name
    /\ threads[1].seen = threads[2].seen

\* C13: when two update_belief calls with evidence on one name interleave so
\* that each reads the original record before either writes, the stored
\* current_confidence at the end is what one of the two updates alone makes of
\* the original (the other write is lost), both evidence items are in the
\* history, and both calls returned True, none an error.
C13_RaceLosesOneWrite ==
    Raced =>
        /\ beliefs[threads[1].name].current_confidence \in {Alone(1), Alone(2)}
        /\ \A i \in Threads :
              /\ threads[i].ret = ReturnBool(TRUE)
              /\ \E k \in 1..Len(History(threads[i].name)) :
                    History(threads[i].name)[k] = threads[i].evidence[1]

\* The two updates alone give different values, thread 2 wrote first and
\* thread 1 last: the record holds the value of thread 1 alone, nothing of
\* thread 2 but its evidence
C13_Witness ==
    /\ Raced
    /\ Alone(1) # Alone(2)
    /\ threads[1].evidence # threads[2].evidence
    /\ History(threads[1].name) = <<threads[2].evidence[1], threads[1].evidence[1]>>
    /\ beliefs[threads[1].name].current_confidence = Alone(1)
    /\ last.ret = ReturnBool(TRUE)

----------------------------------------------------------------------------
(* Confidence decay nodes made from decay and period texts *)

MaxPieces == 2

RECURSIVE Joined(_)
\* The pieces one after another
Joined(pieces) ==
    IF pieces = <<>> THEN <<>> ELSE Head(pieces) \o Joined(Tail(pieces))

\* The texts of up to n of the pieces
TextsUpTo(pieces, n) ==
    { Joined(text) : text \in UNION { [1..k -> pieces] : k \in 1..n } }

\* The texts of up to MaxPieces of the pieces
TextsOf(pieces) == TextsUpTo(pieces, MaxPieces)

\* Decay texts: curve keywords in either case and in any order, and numbers
DecayTexts ==
    TextsOf({
        <<"e", "x", "p", "o", "n", "e", "n", "t", "i", "a", "l">>,
        <<"L", "i", "n", "e", "a", "r">>,
        <<"L", "O", "G", "A", "R", "I", "T", "H", "M", "I", "C">>,
        <<"s", "t", "e", "p">>,
        <<"(", "0", ".", "2", "/", "d", "a", "y", ")">>, <<"5">> })

\* Period texts: unit keywords in either case and in any order, and numbers
PeriodTexts ==
    TextsOf({
        <<"d", "a", "y">>, <<"H", "o", "u", "r">>,
        <<"M", "I", "N", "U", "T", "E">>, <<"7", "_">>,
        <<"0", ".", "5", " ">>, <<"s">> })

\* BOCConfidenceDecay(belief_name, decay_function, time_period) called with two
\* strings
NewConfidenceDecay ==
    /\ node = NoneValue
    /\ \E decay_function \in DecayTexts, time_period \in PeriodTexts :
          node' = BOCConfidenceDecay(<<"b">>, Str(decay_function), Str(time_period))
    /\ UNCHANGED <<beliefs, heap, now, calls, last, threads, boc_code, ast>>
    /\ UNCHANGED <<current_token, propagated, translation>>

NextDecay == NewConfidenceDecay

SpecDecay == Init /\ [][NextDecay]_vars

----------------------------------------------------------------------------
(* A caller makes beliefs, parses an update_belief statement and applies the
   node to the store *)

\* The expressions written as the confidence: numbers in [0,1] and outside
\* it, a number in a string, a text that is no number, an identifier, an array
Confidences ==
    { <<"0", ".", "4">>, <<"0">>, <<"1">>, <<"0", ".", "9", "5">>,
      <<"1", ".", "5">>, <<"2">>, <<"\"", "0", ".", "4", "\"">>,
      <<"\"", "x", "\"">>, <<"x">>, <<"[", "1", "]">> }

\* update_belief statements on the names of the store and on a name it never
\* holds, and the statement of boc_belief_test.py with its evidence clause
UpdateTexts ==
    { Word.update_belief \o <<" ", name, "(">> \o confidence \o <<")">> :
        name \in Names \cup {"c"}, confidence \in Confidences }
    \cup { Documented[2].text }

ParseUpdateBelief == ParseFrom(UpdateTexts)

\* update.apply_to_manager(belief_manager) for the node of the parsed program
ApplyToManager ==
    /\ calls < MaxCalls
    /\ \E k \in DOMAIN ast.statements :
          LET update == ast.statements[k]
              r == apply_to_manager(beliefs, heap, update, now)
          IN  /\ Name(update.belief_name) \in DOMAIN beliefs =>
                     Room(Name(update.belief_name))
              /\ node' = update
              /\ beliefs' = r.beliefs
              /\ heap' = Collect(r.heap, r.beliefs, r.ret.dict)
              /\ last' = Call("apply_to_manager", Name(update.belief_name), 0,
                              <<update.evidence>>, r.ret)
    /\ calls' = calls + 1
    /\ UNCHANGED <<now, threads, boc_code, ast>>
    /\ UNCHANGED <<current_token, propagated, translation>>

NextApply ==
    \/ CreateBelief
    \/ Tick
    \/ ParseUpdateBelief
    \/ ApplyToManager

SpecApply == Init /\ [][NextApply]_vars

----------------------------------------------------------------------------
(* The parser *)

RECURSIVE brace_depth(_, _, _)
\* The '{' tokens less the '}' tokens of the text from pos on, added to depth;
\* -1 once a '}' token comes with no '{' token open. The tokens end at EOF or
\* where the lexer raises.
brace_depth(text, pos, depth) ==
    Then(get_next_token(text, pos), LAMBDA tok :
    IF tok.type \in {"EOF", Exception} THEN depth
    ELSE IF tok.type = "LBRACE" THEN brace_depth(text, tok.pos, depth + 1)
    ELSE IF tok.type # "RBRACE" THEN brace_depth(text, tok.pos, depth)
    ELSE IF depth = 0 THEN -1
    ELSE brace_depth(text, tok.pos, depth - 1))

\* The '{' and '}' tokens of the text are balanced
Balanced(text) == brace_depth(text, 1, 0) = 0

\* The statements the parser goes through in the text when it starts at
\* time t, the one that raised included, and the token it stopped at
Walk(t) == statements_from(boc_code, get_next_token(boc_code, 1), <<>>, t)

\* C14: parse_program returns a complete program or nothing: when a statement
\* raises (a token mismatch or an unexpected token) the caller gets the
\* exception and none of the statements parsed before it; otherwise it gets
\* every statement up to the end of the text. A text whose '{' and '}' tokens
\* are not balanced always fails.
C14_AllOrNothing ==
    ast # NotParsed =>
        IF Raised(Walk(now).tok) \/ ~Balanced(boc_code)
        THEN ast = Failed
        ELSE /\ Walk(now).tok.type = "EOF"
             /\ \E t \in 0..now : ast = BOCProgram(Walk(t).value)

\* A text with a '{' token left open has failed after its first statement
\* was parsed: nothing of that statement is handed back
C14_Witness ==
    /\ ast = Failed
    /\ brace_depth(boc_code, 1, 0) > 0
    /\ Len(Walk(now).value) = 2
    /\ Walk(now).value[1] = parse_boc_code(Documented[1].text, now).statements[1]

\* The kind of a statement of a parsed program: the node_type of a node, the
\* 'type' of a dict
Kind(stmt) ==
    IF "node_type" \in DOMAIN stmt THEN stmt.node_type ELSE stmt.type

\* C15: every program of documented statements with balanced blocks parses,
\* and the statement list has exactly one entry per top-level statement, in
\* the order of the text.
C15_DocumentedProgramsParse ==
    \A program \in DocumentedPrograms :
        (ast # NotParsed /\ boc_code = program.text) =>
            /\ ast.type = "BOCProgram"
            /\ [k \in DOMAIN ast.statements |-> Kind(ast.statements[k])]
                   = program.kinds

\* C16: a block statement written with one or more @name(expr) prefixes before
\* its body parses, and its attribute mapping has each name mapped to its
\* parsed expression, a prefix without parentheses to True.
C16_AttributePrefixes ==
    \A statement \in Attributed :
        (ast # NotParsed /\ boc_code = statement.text) =>
            /\ ast.type = "BOCProgram"
            /\ Len(ast.statements) = 1
            /\ ast.statements[1].attributes = statement.attributes

\* The text of an expression that is a string literal, as a str
Text(expr) == Str(expr.value)

\* The statement is a confidence_decay written with a decay text and a
\* period text
DecayWithTexts(stmt) ==
    /\ Kind(stmt) = "BOCConfidenceDecay"
    /\ stmt.decay_function = Literal(stmt.decay_function.value, "STRING")
    /\ stmt.time_period = Literal(stmt.time_period.value, "STRING")

\* C17: the node of a confidence_decay statement parsed from text has the
\* curve named by the keyword in its decay text, the first number of that text
\* as its rate, and the first number of its period text in the unit the text
\* names: linear, 0.1 and 7 days for b("linear(0.1/day)") period: "7_days".
C17_ParsedDecayFollowsText ==
    \A k \in DOMAIN ast.statements :
        DecayWithTexts(ast.statements[k]) =>
            /\ ast.statements[k].parsed_decay_function
                   = _parse_decay_function(Text(ast.statements[k].decay_function))
            /\ ast.statements[k].parsed_period
                   = _parse_time_period(Text(ast.statements[k].time_period))

\* The first of the keywords, in the order given, that occurs in the text
\* compared without case; 0 if none does
FirstRule(text, keywords) ==
    IF \A i \in DOMAIN keywords : ~Contains(lower(text), keywords[i]) THEN 0
    ELSE CHOOSE i \in DOMAIN keywords :
             /\ Contains(lower(text), keywords[i])
             /\ \A j \in 1..(i - 1) : ~Contains(lower(text), keywords[j])

\* The place in the text, compared without case, where the keyword first
\* occurs
Place(text, keyword) ==
    CHOOSE k \in 1..Len(text) :
        /\ SubSeq(lower(text), k, k + Len(keyword) - 1) = keyword
        /\ \A j \in 1..(k - 1) : SubSeq(lower(text), j, j + Len(keyword) - 1) # keyword

\* C18: the curve of a decay text is that of the first rule, in the order
\* exponential, linear, logarithmic, step, whose keyword occurs anywhere in the
\* text compared without case, whichever keyword comes first in the text; the
\* unit of a period text is decided the same way in the order day, hour,
\* minute.
C18_RuleOrderDecides ==
    node # NoneValue =>
        LET curve == FirstRule(node.decay_function.value,
                               <<Word.exponential, Word.linear,
                                 Word.logarithmic, Word.step>>)
            unit == FirstRule(node.time_period.value,
                              <<Word.day, Word.hour, Word.minute>>)
        IN  /\ curve # 0 =>
                  node.parsed_decay_function[1]
                      = <<"exponential", "linear", "logarithmic", "step">>[curve]
            /\ unit # 0 =>
                  node.parsed_period
                      = timedelta(<<"days", "hours", "minutes">>[unit],
                                  _extract_number(node.time_period.value))

\* A decay text with 'step' written before 'Linear' has the linear curve, and
\* a period text with 'MINUTE' written before 'Hour' is in hours
C18_Witness ==
    /\ node # NoneValue
    /\ Contains(lower(node.decay_function.value), Word.step)
    /\ Contains(lower(node.decay_function.value), Word.linear)
    /\ Place(node.decay_function.value, Word.step)
           < Place(node.decay_function.value, Word.linear)
    /\ node.parsed_decay_function[1] = "linear"
    /\ Contains(lower(node.time_period.value), Word.minute)
    /\ Contains(lower(node.time_period.value), Word.hour)
    /\ Place(node.time_period.value, Word.minute)
           < Place(node.time_period.value, Word.hour)
    /\ node.parsed_period = timedelta("hours", Scale)

----------------------------------------------------------------------------
(* Parsed updates applied to the store *)

\* This step applies a parsed update_belief, whose confidence is a number
\* literal, to a store that holds the named belief
AppliesNumber ==
    /\ IsCall("apply_to_manager")
    /\ last'.name \in DOMAIN beliefs
    /\ node'.new_confidence.type = "Literal"
    /\ node'.new_confidence.token_type = "NUMBER"
    /\ float(node'.new_confidence.value).raised = None

\* The number written as the confidence of the update applied in this step
WrittenNumber == float(node'.new_confidence.value).value

\* C19: a node built by the parser has an Evidence of neutral polarity and
\* weight 1.0, and applying it with a confidence literal c in [0,1] to a store
\* that holds the belief blends with weight 0.5: the stored confidence becomes
\* clamp(0.5 * decayed + 0.5 * c), exactly one evidence item, the node's, is
\* appended, and True is returned.
C19_ParsedUpdateBlendsEvenly ==
    [][(AppliesNumber /\ InUnit(WrittenNumber)) =>
          /\ node'.evidence.evidence_type = "neutral"
          /\ node'.evidence.weight = Scale
          /\ beliefs'[last'.name].current_confidence
                = Clamp(beliefs[last'.name],
                        (500 * apply_decay(beliefs[last'.name], now).ret) \div Scale
                            + (500 * WrittenNumber) \div Scale)
          /\ heap'[beliefs'[last'.name].evidence_history]
                = Append(History(last'.name), node'.evidence)
          /\ last'.ret = ReturnBool(TRUE)]_vars

\* 0.4 has been applied to a belief that had decayed to another value since
\* an earlier update: the record holds the even blend, which is neither
C19_Witness ==
    /\ last.op = "apply_to_manager"
    /\ last.ret = ReturnBool(TRUE)
    /\ node.new_confidence = Literal(<<"0", ".", "4">>, "NUMBER")
    /\ Len(History(last.name)) = 2
    /\ History(last.name)[2] = node.evidence
    /\ beliefs[last.name].current_confidence \notin {400, 900, 800}
    /\ beliefs[last.name].decay_function = "linear"

\* C20: applying a parsed update_belief whose confidence is outside [0,1] to
\* a store that holds the named belief is a hard failure: the ValueError
\* reaches the caller, unlike the False of an unknown belief; the value is not
\* clamped and the belief is left as it was.
C20_OutOfRangeIsHardFailure ==
    [][(AppliesNumber /\ ~InUnit(WrittenNumber)) =>
          /\ last'.ret = Raise(ValueError)
          /\ StoreUnchanged]_vars

----------------------------------------------------------------------------
(* The lexer called token by token, and the parser on the same text *)

MaxRun == 3

\* Texts of up to MaxRun pieces: keywords in any case, a letter, a digit, the
\* characters '_', '-' and '@', a space and a colon
LexTexts ==
    TextsUpTo({ Word.belief, <<"E", "n", "t", "i", "t", "y">>,
                <<"T", "R", "U", "E">>, <<"x">>, <<"1">>, <<"_">>, <<"-">>,
                <<"@">>, <<" ">>, <<":">> }, MaxRun)

\* BOCLexer(text): nothing read yet, the position at the first character
NewLexer ==
    /\ current_token = NoneValue
    /\ \E text \in LexTexts :
          /\ boc_code' = text
          /\ current_token' = BOCToken("NoneType", <<>>, 1)
    /\ UNCHANGED <<beliefs, heap, now, calls, last, threads, ast, node>>
    /\ UNCHANGED <<propagated, translation>>

\* lexer.get_next_token(); after an exception the caller calls no more
GetNextToken ==
    /\ current_token # NoneValue
    /\ current_token.type # Exception
    /\ current_token' = get_next_token(boc_code, current_token.pos)
    /\ UNCHANGED <<beliefs, heap, now, calls, last, threads, boc_code, ast, node>>
    /\ UNCHANGED <<propagated, translation>>

\* BOCParser(BOCLexer(text)).parse_program() on the text that was lexed
ParseProgram ==
    /\ current_token # NoneValue
    /\ current_token.type \in {"EOF", Exception}
    /\ ast = NotParsed
    /\ ast' = parse_boc_code(boc_code, now)
    /\ UNCHANGED <<beliefs, heap, now, calls, last, threads, boc_code, node>>
    /\ UNCHANGED <<current_token, propagated, translation>>

NextLex ==
    \/ NewLexer
    \/ GetNextToken
    \/ ParseProgram

SpecLex == Init /\ [][NextLex]_vars

\* A character of an identifier run: a letter, a digit, '_', '-' or '@'
RunChar(c) == isalnum(c) \/ c \in {"_", "-", "@"}

\* Position s of the text is where a maximal run begins
RunBegins(text, s) ==
    /\ s <= Len(text)
    /\ RunChar(text[s])
    /\ s > 1 => ~RunChar(text[s - 1])

\* The last position of the run that position s is in
RunEnd(text, s) ==
    CHOOSE e \in s..Len(text) :
        /\ \A k \in s..e : RunChar(text[k])
        /\ e < Len(text) => ~RunChar(text[e + 1])

\* The words of the keyword table
Keywords ==
    { Word.belief, Word.reasoning_context, Word.intent, Word.shared_state,
      Word.self_capability, Word.calculate_with_uncertainty,
      Word.structured_knowledge, Word.entity, Word.update_belief,
      Word.confidence_decay, Word.agent_coordination, Word.provenance,
      Word.true, Word.false }

\* The next token is read where a maximal run begins that starts with no
\* digit
ReadsRun ==
    /\ current_token # NoneValue
    /\ current_token' # current_token
    /\ RunBegins(boc_code, skip_whitespace(boc_code, current_token.pos))
    /\ ~isdigit(boc_code[skip_whitespace(boc_code, current_token.pos)])

\* The maximal run the next token is read at
Run ==
    SubSeq(boc_code, skip_whitespace(boc_code, current_token.pos),
           RunEnd(boc_code, skip_whitespace(boc_code, current_token.pos)))

\* C21: every maximal run of letters, digits, '_', '-' and '@' that begins
\* with no digit becomes exactly one token, whichever of these characters it
\* begins with: a keyword token when the run is in the keyword table compared
\* without case, an IDENTIFIER token otherwise.
C21_RunIsOneToken ==
    [][ReadsRun =>
          /\ current_token'.value = Run
          /\ current_token'.pos
                = RunEnd(boc_code, skip_whitespace(boc_code, current_token.pos)) + 1
          /\ current_token'.type # Exception
          /\ current_token'.type = "IDENTIFIER" <=> lower(Run) \notin Keywords]_vars

----------------------------------------------------------------------------
(* uncertainty_propagation.py. A float of the engine is a real number in
   thousandths, inf, nan, or the complex number that a negative base gives
   under a fractional exponent, kept by its modulus. The engine makes inf
   and multiplies by it only where the other factor is not negative. *)

Finite(x) == [float |-> "finite", x |-> x]
inf == [float |-> "inf", x |-> 0]
nan == [float |-> "nan", x |-> 0]
Complex(modulus) == [float |-> "complex", x |-> modulus]

ZeroDivisionError == "ZeroDivisionError"

UncertaintyTypes == {"absolute", "relative", "std", "ci"}

RECURSIVE isqrt(_, _, _)
\* The largest r in lo..hi with r * r <= n
isqrt(n, lo, hi) ==
    IF lo >= hi THEN lo
    ELSE IF ((lo + hi + 1) \div 2) * ((lo + hi + 1) \div 2) <= n
         THEN isqrt(n, (lo + hi + 1) \div 2, hi)
         ELSE isqrt(n, lo, (lo + hi + 1) \div 2 - 1)

\* a * b
times(a, b) ==
    IF a.float = "nan" \/ b.float = "nan" THEN nan
    ELSE IF a.float = "inf" \/ b.float = "inf"
         THEN IF a = Finite(0) \/ b = Finite(0) THEN nan ELSE inf
    ELSE Finite(Mul(a.x, b.x))

\* a + b
plus(a, b) ==
    IF a.float = "nan" \/ b.float = "nan" THEN nan
    ELSE IF a.float = "inf" \/ b.float = "inf" THEN inf
    ELSE Finite(a.x + b.x)

\* a / b for a finite b that is not 0
over(a, b) ==
    IF a.float \in {"nan", "inf"} THEN a ELSE Finite(Div(a.x, b.x))

\* math.sqrt(a) for an a that is not negative
math_sqrt(a) ==
    IF a.float \in {"nan", "inf"} THEN a
    ELSE Finite(isqrt(a.x * Scale, 0, Min(a.x * Scale, 46340)))

\* abs(a); of a complex number, its modulus
abs(a) == IF a.float = "finite" THEN Finite(Max(a.x, -a.x))
          ELSE IF a.float = "complex" THEN Finite(a.x) ELSE a

\* a < b and a > b; every comparison with nan is False
less(a, b) ==
    /\ a.float # "nan" /\ b.float # "nan"
    /\ a.float = "finite"
    /\ b.float = "inf" \/ a.x < b.x

greater(a, b) == less(b, a)

\* The outcome of a call that raised e
Raises(e) ==
    [raised |-> e, value |-> Finite(0), uncertainty |-> Finite(0),
     uncertainty_type |-> None]

\* The fields of an UncertaintyValue as a caller writes them, before
\* __post_init__ has looked at them
UncertaintyValueUnchecked(value, uncertainty, uncertainty_type) ==
    [raised |-> None, value |-> value, uncertainty |-> uncertainty,
     uncertainty_type |-> uncertainty_type]

\* UncertaintyValue(value, uncertainty, uncertainty_type), __post_init__
\* included
UncertaintyValue(value, uncertainty, uncertainty_type) ==
    IF less(uncertainty, Finite(0)) THEN Raises(ValueError)
    ELSE [raised |-> None, value |-> value, uncertainty |-> uncertainty,
          uncertainty_type |-> uncertainty_type]

isinstance_UncertaintyValue(x) == "uncertainty" \in DOMAIN x

\* Variant: the sign of the value kept for a relative uncertainty
get_absolute_uncertainty_signed(self) ==
    IF self.uncertainty_type = "absolute" THEN self.uncertainty
    ELSE IF self.uncertainty_type = "relative"
         THEN times(self.value, self.uncertainty)
    ELSE IF self.uncertainty_type = "std"
         THEN times(Finite(2 * Scale), self.uncertainty)
    ELSE self.uncertainty

get_absolute_uncertainty(self) ==
    IF self.uncertainty_type = "absolute" THEN self.uncertainty
    ELSE IF self.uncertainty_type = "relative"
         THEN times(abs(self.value), self.uncertainty)
    ELSE IF self.uncertainty_type = "std"
         THEN times(Finite(2 * Scale), self.uncertainty)
    ELSE self.uncertainty

get_relative_uncertainty(self) ==
    IF self.value = Finite(0)
    THEN IF greater(get_absolute_uncertainty(self), Finite(0))
         THEN inf ELSE Finite(0)
    ELSE over(get_absolute_uncertainty(self), abs(self.value))

get_standard_deviation(self) ==
    IF self.uncertainty_type = "std" THEN self.uncertainty
    ELSE IF self.uncertainty_type = "ci"
         THEN over(self.uncertainty, Finite(2 * Scale))
    ELSE over(get_absolute_uncertainty(self), Finite(2 * Scale))

\* math.sqrt(x**2 + y**2)
quadrature(x, y) == math_sqrt(plus(times(x, x), times(y, y)))

add(a, b) ==
    UncertaintyValue(plus(a.value, b.value),
                     quadrature(get_standard_deviation(a),
                                get_standard_deviation(b)),
                     "std")

subtract(a, b) ==
    UncertaintyValue(Finite(a.value.x - b.value.x),
                     quadrature(get_standard_deviation(a),
                                get_standard_deviation(b)),
                     "std")

multiply(a, b) ==
    UncertaintyValue(times(a.value, b.value),
                     times(abs(times(a.value, b.value)),
                           quadrature(get_relative_uncertainty(a),
                                      get_relative_uncertainty(b))),
                     "absolute")

\* Variant: the divisor 0 taken for the smallest float, nothing raised
divide_by_any(a, b) ==
    UncertaintyValue(over(a.value, IF b.value.x = 0 THEN Finite(1) ELSE b.value),
                     Finite(0), "absolute")

divide(a, b) ==
    IF b.value = Finite(0) THEN Raises(ValueError)
    ELSE UncertaintyValue(over(a.value, b.value),
                          times(abs(over(a.value, b.value)),
                                quadrature(get_relative_uncertainty(a),
                                           get_relative_uncertainty(b))),
                          "absolute")

\* x ** y of two real floats, x > 0
real_power(x, y) ==
    IF y.x = Scale \div 2 THEN math_sqrt(x)
    ELSE IF y.x % Scale = 0 /\ y.x >= 0 THEN Finite(pow(x.x, y.x \div Scale))
    ELSE IF y.x % Scale = 0 THEN Finite(Div(Scale, pow(x.x, (-y.x) \div Scale)))
    ELSE Finite(exp(Mul(y.x, log(x.x))))

\* x ** y of two real floats: an integer power of any base, 0 to a negative
\* power is a ZeroDivisionError, a fractional power of a negative base is
\* complex
float_power(x, y) ==
    IF x.x > 0 THEN [raised |-> None, value |-> real_power(x, y)]
    ELSE IF x.x = 0
         THEN IF y.x < 0 THEN [raised |-> ZeroDivisionError, value |-> nan]
              ELSE [raised |-> None,
                    value |-> IF y.x = 0 THEN Finite(Scale) ELSE Finite(0)]
    ELSE IF y.x % Scale = 0 /\ y.x >= 0
         THEN [raised |-> None, value |-> Finite(pow(x.x, y.x \div Scale))]
    ELSE IF y.x % Scale = 0
         THEN [raised |-> None,
               value |-> Finite(Div(Scale, pow(x.x, (-y.x) \div Scale)))]
    ELSE [raised |-> None, value |-> Complex(real_power(abs(x), y).x)]

\* power(base, exponent), the exponent an UncertaintyValue or a float
power(base, exponent) ==
    IF isinstance_UncertaintyValue(exponent)
    THEN IF base.value.x <= 0 THEN Raises(ValueError)
         ELSE UncertaintyValue(
                  real_power(base.value, exponent.value),
                  times(abs(real_power(base.value, exponent.value)),
                        quadrature(times(exponent.value,
                                         get_relative_uncertainty(base)),
                                   over(times(Finite(log(abs(base.value).x)),
                                              get_absolute_uncertainty(exponent)),
                                        base.value))),
                  "absolute")
    ELSE IF float_power(base.value, exponent).raised # None
         THEN Raises(float_power(base.value, exponent).raised)
    ELSE UncertaintyValue(
             float_power(base.value, exponent).value,
             times(abs(float_power(base.value, exponent).value),
                   times(abs(exponent), get_relative_uncertainty(base))),
             "absolute")

sqrt(value) == power(value, Finite(Scale \div 2))

\* UncertaintyPropagator.exp
propagator_exp(value) ==
    UncertaintyValue(Finite(exp(value.value.x)),
                     times(Finite(exp(value.value.x)),
                           get_absolute_uncertainty(value)),
                     "absolute")

\* UncertaintyPropagator.log
propagator_log(value) ==
    IF value.value.x <= 0 THEN Raises(ValueError)
    ELSE UncertaintyValue(Finite(log(value.value.x)),
                          get_relative_uncertainty(value), "absolute")

RECURSIVE strip(_)
\* str.strip()
strip(word) ==
    IF word = <<>> THEN word
    ELSE IF isspace(word[1]) THEN strip(Tail(word))
    ELSE IF isspace(word[Len(word)]) THEN strip(SubSeq(word, 1, Len(word) - 1))
    ELSE word

\* float(text) of the uncertainty parser: spaces around the numeral and a
\* sign before it are taken
float_signed(word) ==
    IF strip(word) # <<>> /\ strip(word)[1] = "-"
    THEN [raised |-> float(Tail(strip(word))).raised,
          value |-> -float(Tail(strip(word))).value]
    ELSE float(strip(word))

\* The positions of the sign in the expression
SignsIn(expression) == { k \in 1..Len(expression) : expression[k] = PlusMinus }

\* UncertaintyParser.parse_uncertainty_expression: with one sign the two
\* parts are converted, and a part that is no number raises the ValueError
\* of float; without it, or with several, the whole text is converted
parse_value_with_uncertainty(expression) ==
    IF Cardinality(SignsIn(expression)) = 1
    THEN LET at == CHOOSE k \in SignsIn(expression) : TRUE
             value == float_signed(SubSeq(expression, 1, at - 1))
             uncertainty ==
                 float_signed(SubSeq(expression, at + 1, Len(expression)))
         IN  IF value.raised # None \/ uncertainty.raised # None
             THEN Raises(ValueError)
             ELSE UncertaintyValue(Finite(value.value),
                                   Finite(uncertainty.value), "absolute")
    ELSE IF float_signed(expression).raised # None THEN Raises(ValueError)
    ELSE UncertaintyValue(Finite(float_signed(expression).value), Finite(0),
                          "absolute")

\* The values and the uncertainties that the callers give: the module's own
\* test uses 10.0 +- 0.5, 5.0 +- 0.2 and 3.0 +- 0.1; here a negative value,
\* 0, one below and one above 1, and 0, 0.1 and 0.5
Values == {-2000, 0, 500, 2000}
Uncertainties == {0, 100, 500}

\* The UncertaintyValue objects callers hold
Operands ==
    { UncertaintyValue(Finite(value), Finite(uncertainty), uncertainty_type) :
        value \in Values, uncertainty \in Uncertainties,
        uncertainty_type \in UncertaintyTypes }

\* The exact exponents of power
Exponents == { Finite(x) : x \in {-1000, 0, 500, 2000} }

\* The texts given to the uncertainty parser
UncertaintyTexts ==
    { <<"2", "2", ".", "5", " ", PlusMinus, " ", "0", ".", "1">>,
      <<"0", " ", PlusMinus, " ", "0", ".", "1">>,
      <<"1", " ", PlusMinus, " ", "-", "0", ".", "5">>,
      <<"-", "3", PlusMinus, "0", ".", "5">>,
      <<"5">>, <<PlusMinus, "0", ".", "1">>, <<"a", "b", "c">>,
      <<"1", PlusMinus, "2", PlusMinus, "3">> }

NoOperand == [raised |-> None]

\* One call of the engine: the operation, its operands and what came of it
Propagated(op, a, b, ret) == [op |-> op, a |-> a, b |-> b, ret |-> ret]

EngineOnly ==
    /\ propagated = NoneValue
    /\ UNCHANGED <<beliefs, heap, now, calls, last, threads, boc_code, ast, node>>
    /\ UNCHANGED <<current_token, translation>>

\* UncertaintyValue(value, uncertainty, uncertainty_type) by a caller
NewUncertaintyValue ==
    /\ EngineOnly
    /\ \E value \in Values, uncertainty \in Uncertainties \cup {-100},
          uncertainty_type \in UncertaintyTypes :
          propagated' =
              Propagated("UncertaintyValue",
                         UncertaintyValueUnchecked(Finite(value),
                             Finite(uncertainty), uncertainty_type),
                         NoOperand,
                         UncertaintyValue(Finite(value), Finite(uncertainty),
                                          uncertainty_type))

ParseUncertaintyExpression ==
    /\ EngineOnly
    /\ \E expression \in UncertaintyTexts :
          propagated' = Propagated("parse_uncertainty_expression",
                                   Str(expression), NoOperand,
                                   parse_value_with_uncertainty(expression))

GetAbsoluteUncertainty ==
    /\ EngineOnly
    /\ \E self \in Operands :
          propagated' = Propagated("get_absolute_uncertainty", self, NoOperand,
                                   get_absolute_uncertainty(self))

Add ==
    /\ EngineOnly
    /\ \E a \in Operands, b \in Operands :
          propagated' = Propagated("add", a, b, add(a, b))

Subtract ==
    /\ EngineOnly
    /\ \E a \in Operands, b \in Operands :
          propagated' = Propagated("subtract", a, b, subtract(a, b))

Multiply ==
    /\ EngineOnly
    /\ \E a \in Operands, b \in Operands :
          propagated' = Propagated("multiply", a, b, multiply(a, b))

Divide ==
    /\ EngineOnly
    /\ \E a \in Operands, b \in Operands :
          propagated' = Propagated("divide", a, b, divide(a, b))

Power ==
    /\ EngineOnly
    /\ \E base \in Operands, exponent \in Operands \cup Exponents :
          propagated' = Propagated("power", base, exponent,
                                   power(base, exponent))

Sqrt ==
    /\ EngineOnly
    /\ \E value \in Operands :
          propagated' = Propagated("sqrt", value, NoOperand, sqrt(value))

Exp ==
    /\ EngineOnly
    /\ \E value \in Operands :
          propagated' = Propagated("exp", value, NoOperand,
                                   propagator_exp(value))

Log ==
    /\ EngineOnly
    /\ \E value \in Operands :
          propagated' = Propagated("log", value, NoOperand,
                                   propagator_log(value))

NextUncertainty ==
    \/ NewUncertaintyValue
    \/ ParseUncertaintyExpression
    \/ GetAbsoluteUncertainty
    \/ Add
    \/ Subtract
    \/ Multiply
    \/ Divide
    \/ Power
    \/ Sqrt
    \/ Exp
    \/ Log

SpecUncertainty == Init /\ [][NextUncertainty]_vars

\* An operation has returned an UncertaintyValue
Made ==
    /\ propagated # NoneValue
    /\ propagated.op # "get_absolute_uncertainty"
    /\ propagated.ret.raised = None

\* C22: every UncertaintyValue that is constructed, parsed or returned by an
\* operation has an uncertainty >= 0, and construction with a negative
\* uncertainty fails.
C22_UncertaintyNeverNegative ==
    /\ Made =>
          \/ greater(propagated.ret.uncertainty, Finite(0))
          \/ propagated.ret.uncertainty = Finite(0)
    /\ (/\ propagated # NoneValue
        /\ propagated.op = "UncertaintyValue"
        /\ propagated.a.uncertainty.x < 0) =>
          propagated.ret.raised = ValueError

\* C23 as stated: get_absolute_uncertainty returns u for absolute and
\* confidence-interval values, value * u for relative ones and 2u for
\* standard deviations, whatever the sign of the value.
C23_AbsoluteAsStated ==
    (propagated # NoneValue /\ propagated.op = "get_absolute_uncertainty") =>
        propagated.ret.x =
            CASE propagated.a.uncertainty_type \in {"absolute", "ci"} ->
                     propagated.a.uncertainty.x
              [] propagated.a.uncertainty_type = "relative" ->
                     Mul(propagated.a.value.x, propagated.a.uncertainty.x)
              [] propagated.a.uncertainty_type = "std" ->
                     2 * propagated.a.uncertainty.x

\* C23, amended: get_absolute_uncertainty returns u for absolute and
\* confidence-interval values, |value| * u for relative ones and 2u for
\* standard deviations, so that it is never negative.
C23_AbsoluteOfMagnitude ==
    (propagated # NoneValue /\ propagated.op = "get_absolute_uncertainty") =>
        /\ propagated.ret.float = "finite"
        /\ propagated.ret.x >= 0
        /\ propagated.ret.x =
              CASE propagated.a.uncertainty_type \in {"absolute", "ci"} ->
                       propagated.a.uncertainty.x
                [] propagated.a.uncertainty_type = "relative" ->
                       Mul(Max(propagated.a.value.x, -propagated.a.value.x),
                           propagated.a.uncertainty.x)
                [] propagated.a.uncertainty_type = "std" ->
                       2 * propagated.a.uncertainty.x

\* The absolute uncertainty of the relative value -2 +- 50% has been asked
C23_Witness ==
    /\ propagated # NoneValue
    /\ propagated.op = "get_absolute_uncertainty"
    /\ propagated.a = UncertaintyValue(Finite(-2000), Finite(500), "relative")
    /\ propagated.ret = Finite(1000)

\* C24: divide by a value of 0, log of a value <= 0 and power with an
\* uncertain exponent on a base <= 0 raise ValueError and return no
\* UncertaintyValue, whatever the uncertainties are.
C24_DomainErrors ==
    propagated # NoneValue =>
        /\ (propagated.op = "divide" /\ propagated.b.value.x = 0) =>
              propagated.ret = Raises(ValueError)
        /\ (propagated.op = "log" /\ propagated.a.value.x <= 0) =>
              propagated.ret = Raises(ValueError)
        /\ (/\ propagated.op = "power"
            /\ isinstance_UncertaintyValue(propagated.b)
            /\ propagated.a.value.x <= 0) =>
              propagated.ret = Raises(ValueError)

\* 2 +- 0.5 has been divided by 0 +- 0, a pair whose quotient would carry no
\* uncertainty
C24_Witness ==
    /\ propagated # NoneValue
    /\ propagated.op = "divide"
    /\ propagated.a = UncertaintyValue(Finite(2000), Finite(500), "absolute")
    /\ propagated.b = UncertaintyValue(Finite(0), Finite(0), "absolute")
    /\ propagated.ret.raised = ValueError

----------------------------------------------------------------------------
(* The confidence a reader observes around the two conflict operations *)

\* What get_current_confidence returns for the belief in store d at time t
Observed(d, h, name, t) == get_current_confidence(d, h, name, t).ret.float

\* The call that ends this step hands in evidence of a confidence in [0,1]
\* or none at all
EvidenceInRange ==
    \A k \in 1..Len(last'.evidence) :
        last'.evidence[k].confidence \in 0..Scale

\* C26: add_contradictory_evidence and resolve_conflicts, given evidence of a
\* confidence in [0,1], never increase the confidence a reader observes:
\* get_current_confidence right after the call returns no more than it
\* returned right before, however long ago the belief was last updated.
C26_ConflictNeverRaisesObserved ==
    [][\A name \in DOMAIN beliefs :
          (/\ IsCall("add_contradictory_evidence") \/ IsCall("resolve_conflicts")
           /\ last'.name = name
           /\ EvidenceInRange) =>
              Observed(beliefs', heap', name, now')
                  <= Observed(beliefs, heap, name, now)]_vars

\* C27: resolve_conflicts called twice in a row on the same belief, with no
\* other call in between, leaves the stored current_confidence at the value
\* the first call left.
C27_ResolveIdempotent ==
    [][\A name \in DOMAIN beliefs :
          (/\ last.op = "resolve_conflicts" /\ last.name = name
           /\ IsCall("resolve_conflicts") /\ last'.name = name) =>
              beliefs'[name].current_confidence
                  = beliefs[name].current_confidence]_vars

----------------------------------------------------------------------------
(* Numbers followed by an uncertainty, in blocks, assignments and objects *)

\* The texts of up to MaxTokens of these pieces: the opening of a block, a
\* key with a number, an uncertainty, a closing brace, the opening of an
\* assignment and of an assigned object, and a number
PairTexts ==
    TextsUpTo({ Word.shared_state \o <<" ", "{", " ">>,
                <<"k", ":", " ", "1", " ">>,
                <<PlusMinus, "0", ".", "1", " ">>,
                <<"}", " ">>,
                <<"x", " ", "=", " ">>,
                <<"x", " ", "=", " ", "{", " ">>,
                <<"1", " ">> }, MaxTokens)

ParsePairs == ParseFrom(PairTexts)

NextPairs == ParsePairs

SpecPairs == Init /\ [][NextPairs]_vars

\* The node is an Uncertainty node
IsUncertainty(x) == "node_type" \in DOMAIN x /\ x.node_type = "BOCUncertainty"

\* The content has a formula, and an input_uncertainties object all of whose
\* values were written as uncertainties
WritesUncertainInputs(content) ==
    /\ LastValue(content, Word.formula) # <<>>
    /\ LastValue(content, Word.input_uncertainties) # <<>>
    /\ \A k \in 1..Len(content) :
          HasKey(content[k], Word.input_uncertainties) =>
              /\ content[k].value.type = "Object"
              /\ DOMAIN content[k].value.properties # {}
              /\ \A var_name \in DOMAIN content[k].value.properties :
                    IsUncertainty(content[k].value.properties[var_name])

\* C28: a calculate_with_uncertainty block with a formula and an
\* input_uncertainties object whose values are uncertainty tokens has an
\* uncertainty_analysis with the formula, one parsed uncertainty for each
\* input variable and propagation_possible = true.
C28_UncertaintyAnalysisRecorded ==
    \A k \in 1..Len(ast.statements) :
        (/\ Kind(ast.statements[k]) = "CalculateWithUncertainty"
         /\ WritesUncertainInputs(ast.statements[k].content)) =>
            LET stmt == ast.statements[k]
                inputs == LastValue(stmt.content, Word.input_uncertainties)[1]
            IN  /\ DOMAIN stmt.uncertainty_analysis # {}
                /\ <<stmt.uncertainty_analysis.formula>>
                       = LastValue(stmt.content, Word.formula)
                /\ DOMAIN stmt.uncertainty_analysis.input_uncertainties
                       = DOMAIN inputs.properties
                /\ stmt.uncertainty_analysis.propagation_possible

RECURSIVE UncertaintyNodes(_)
\* The Uncertainty nodes in a statement or in a value
UncertaintyNodes(x) ==
    IF IsUncertainty(x) THEN {x}
    ELSE IF "content" \in DOMAIN x
         THEN UNION { UncertaintyNodes(x.content[k]) : k \in DOMAIN x.content }
    ELSE IF "type" \notin DOMAIN x THEN {}
    ELSE CASE x.type = "Array" ->
                  UNION { UncertaintyNodes(x.items[k]) : k \in DOMAIN x.items }
           [] x.type = "Object" ->
                  UNION { UncertaintyNodes(x.properties[k]) :
                              k \in DOMAIN x.properties }
           [] x.type \in {"KeyValue", "Assignment"} -> UncertaintyNodes(x.value)
           [] x.type = "Entity" -> UncertaintyNodes(x.properties)
           [] OTHER -> {}

\* A block whose body is a key with the number 1 and then an uncertainty
BlockWithPair ==
    Word.shared_state
        \o <<" ", "{", " ", "k", ":", " ", "1", " ", PlusMinus, "0", ".", "1",
             " ", "}", " ">>

\* The same pair as the value of an assignment
AssignedPair ==
    <<"x", " ", "=", " ", "1", " ", PlusMinus, "0", ".", "1", " ">>

\* The same pair as the value of a key of an assigned object
PairInObject ==
    <<"x", " ", "=", " ", "{", " ", "k", ":", " ", "1", " ", PlusMinus, "0",
      ".", "1", " ", "}", " ">>

----------------------------------------------------------------------------
(* translator.py. A name is a tuple of characters, a dict a record, a str a
   tuple of lines, each line a tuple of the pieces that are formatted into
   it; a list of lines is told from a str by its type. *)

\* any(keyword in name.lower() for keyword in keywords)
AnyIn(name, keywords) == \E keyword \in keywords : Contains(lower(name), keyword)

_is_recursive(func_ast) ==
    \/ func_ast.name \in { <<"f", "a", "c", "t", "o", "r", "i", "a", "l">>, <<"f", "i", "b", "o", "n", "a", "c", "c", "i">>, <<"r", "e", "c", "u", "r", "s", "i", "v", "e">> }
    \/ Contains(func_ast.name, <<"r", "e", "c", "u", "r", "s", "i", "v", "e">>)

_count_loops(func_ast) ==
    IF Contains(func_ast.name, <<"w", "h", "i", "l", "e">>) \/ Contains(func_ast.name, <<"f", "o", "r">>)
    THEN 1 ELSE 0

_count_conditionals(func_ast) ==
    IF Contains(func_ast.name, <<"c", "h", "e", "c", "k">>) \/ Contains(func_ast.name, <<"v", "a", "l", "i", "d", "a", "t", "e">>)
    THEN 2 ELSE 1

_analyze_complexity(func_ast) ==
    [time_complexity |-> "unknown", space_complexity |-> "unknown",
     recursive |-> _is_recursive(func_ast), loops |-> _count_loops(func_ast),
     conditional_branches |-> _count_conditionals(func_ast)]

_analyze_side_effects(func_ast) ==
    [modifies_state |-> AnyIn(func_ast.name, { <<"s", "e", "t">>, <<"u", "p", "d", "a", "t", "e">>, <<"m", "o", "d", "i", "f", "y">>, <<"c", "h", "a", "n", "g", "e">> }),
     io_operations |-> AnyIn(func_ast.name, { <<"p", "r", "i", "n", "t">>, <<"r", "e", "a", "d">>, <<"w", "r", "i", "t", "e">>, <<"f", "i", "l", "e">>, <<"i", "o">> }),
     network_operations |-> AnyIn(func_ast.name, { <<"f", "e", "t", "c", "h">>, <<"s", "e", "n", "d">>, <<"r", "e", "q", "u", "e", "s", "t">>, <<"n", "e", "t", "w", "o", "r", "k">> }),
     memory_allocation |-> AnyIn(func_ast.name, { <<"c", "r", "e", "a", "t", "e">>, <<"a", "l", "l", "o", "c", "a", "t", "e">>, <<"b", "u", "f", "f", "e", "r">>, <<"a", "r", "r", "a", "y">> })]

_infer_param_constraints(param_name, param_type) ==
    (IF param_type = "Int"
     THEN <<"non_negative_if_appropriate", "within_machine_limits">>
     ELSE IF param_type = "Float"
          THEN <<"finite_number", "not_nan_or_infinity">>
     ELSE IF param_type = "String" THEN <<"valid_utf8", "reasonable_length">>
     ELSE <<>>)
    \o (IF AnyIn(param_name, {<<"c", "o", "u", "n", "t">>, <<"s", "i", "z", "e">>}) THEN <<"non_negative">>
        ELSE IF AnyIn(param_name, {<<"i", "n", "d", "e", "x">>}) THEN <<"within_bounds">>
        ELSE IF AnyIn(param_name, {<<"r", "a", "t", "i", "o">>, <<"p", "e", "r", "c", "e", "n", "t", "a", "g", "e">>})
             THEN <<"between_0_and_1">>
        ELSE <<>>)

_determine_priority(func_ast) ==
    IF AnyIn(func_ast.name, {<<"c", "r", "i", "t", "i", "c", "a", "l">>, <<"e", "m", "e", "r", "g", "e", "n", "c", "y">>}) THEN "high"
    ELSE IF AnyIn(func_ast.name, {<<"b", "a", "c", "k", "g", "r", "o", "u", "n", "d">>, <<"m", "a", "i", "n", "t", "e", "n", "a", "n", "c", "e">>}) THEN "low"
    ELSE "normal"

_calculate_semantic_preservation(func_ast) ==
    Max(950 - (IF _is_recursive(func_ast) THEN 50 ELSE 0)
            - (IF _count_loops(func_ast) > 2 THEN 50 ELSE 0)
            - (IF _count_conditionals(func_ast) > 3 THEN 50 ELSE 0),
        700)

translate_function_def(clarity_func_ast) ==
    [structured_knowledge |->
         [type |-> "function_definition",
          name |-> clarity_func_ast.name,
          parameters |->
              [k \in DOMAIN clarity_func_ast.params |->
                  [name |-> clarity_func_ast.params[k][1],
                   type |-> clarity_func_ast.params[k][2],
                   confidence |-> 950, uncertainty |-> 0,
                   constraints |->
                       _infer_param_constraints(clarity_func_ast.params[k][1],
                                                clarity_func_ast.params[k][2])]],
          return_type |-> clarity_func_ast.return_type,
          confidence |-> Scale,
          source |-> "human_contributed",
          original_syntax |-> "clarity",
          complexity_analysis |-> _analyze_complexity(clarity_func_ast),
          side_effects |-> _analyze_side_effects(clarity_func_ast)],
     reasoning_context |->
         [confidence_threshold |-> 700,
          error_handling |->
              [has_error_handling |->
                   AnyIn(clarity_func_ast.name, { <<"s", "a", "f", "e">>, <<"c", "h", "e", "c", "k", "e", "d">>, <<"v", "a", "l", "i", "d", "a", "t", "e", "d">>, <<"h", "a", "n", "d", "l", "e">> })]],
     intent |->
         [to_perform |-> <<"execute_function_", clarity_func_ast.name>>,
          action_type |-> "computation",
          parameters |-> clarity_func_ast.params,
          priority |-> _determine_priority(clarity_func_ast)],
     provenance |->
         [source |-> "human_written", translation_confidence |-> 900,
          semantic_preservation_score |->
              _calculate_semantic_preservation(clarity_func_ast)]]

\* value_ast.value if the object has one, str(value_ast) otherwise
_translate_value(value_ast) ==
    IF "value" \in DOMAIN value_ast THEN value_ast.value ELSE value_ast.str

translate_variable_declaration(clarity_var_ast) ==
    [belief |->
         [fact |-> <<"v", "a", "r", "i", "a", "b", "l", "e", "_">> \o clarity_var_ast.name \o <<"_", "i", "n", "i", "t", "i", "a", "l", "i", "z", "e", "d">>,
          value |-> <<_translate_value(clarity_var_ast.value)>>,
          confidence |-> 950,
          source |-> "program_initialization",
          certainty_decay |-> IF clarity_var_ast.mutable THEN "none"
                              ELSE "over_time"]]

_translate_expression(expr_ast) == expr_ast.str

_translate_statements(stmt_list) ==
    [k \in DOMAIN stmt_list |->
        [statement_type |-> stmt_list[k].class, content |-> stmt_list[k].str]]

\* translate_conditional; an else_branch that is None or empty gives []
translate_conditional(clarity_if_ast) ==
    [reasoning_context |->
         [condition |-> _translate_expression(clarity_if_ast.condition),
          branches |->
              [then |-> _translate_statements(clarity_if_ast.then_branch),
               else |-> _translate_statements(clarity_if_ast.else_branch)],
          confidence_threshold |-> 500]]

\* The component of a statement that has a node_type
Component(stmt) ==
    IF stmt.node_type = <<"F", "u", "n", "c", "t", "i", "o", "n", "D", "e", "f">> THEN translate_function_def(stmt)
    ELSE IF stmt.node_type = <<"V", "a", "r", "i", "a", "b", "l", "e", "D", "e", "c", "l">>
         THEN translate_variable_declaration(stmt)
    ELSE IF stmt.node_type = <<"I", "f", "E", "x", "p", "r">> THEN translate_conditional(stmt)
    ELSE [belief |-> [fact |-> <<"p", "r", "o", "g", "r", "a", "m", "_", "c", "o", "n", "t", "a", "i", "n", "s", "_">> \o stmt.node_type,
                      confidence |-> 800, source |-> "program_structure"]]

RECURSIVE Components(_)
\* The loop of translate_entire_program: statements without a node_type are
\* passed over
Components(statements) ==
    IF statements = <<>> THEN <<>>
    ELSE IF "node_type" \in DOMAIN Head(statements)
         THEN <<Component(Head(statements))>> \o Components(Tail(statements))
    ELSE Components(Tail(statements))

translate_entire_program(clarity_ast) ==
    [structured_knowledge |->
         [type |-> "program",
          components |-> Components(clarity_ast.statements),
          provenance |->
              [author |-> "human_contributor",
               translation_tool |-> "clarity_to_boc_translator",
               timestamp |-> "2026-02-02T19:00:00Z"]],
     intent |-> [to_perform |-> "execute_program", confidence_level |-> 900,
                 deadline |-> "indefinite"]]

\* A str of the given lines, and a list of them
StrOf(lines) == [type |-> "str", lines |-> lines]
ListOf(lines) == [type |-> "list", lines |-> lines]

\* The text of one parameter, its constraints after it if it has any
ParamStr(param) ==
    <<param.name, ": ", param.type>>
    \o (IF param.constraints # <<>>
        THEN <<"  // Constraints: ", param.constraints>> ELSE <<>>)

_generate_function_code(func_def) ==
    StrOf(<<
        <<"// Function translated from BOC representation">>,
        <<"// Confidence: ", func_def.confidence>>,
        <<"// Source: ", func_def.source>>,
        <<"// Time Complexity: ", func_def.complexity_analysis.time_complexity>>,
        <<"// Space Complexity: ", func_def.complexity_analysis.space_complexity>>,
        <<"// Side Effects: ",
          { k \in DOMAIN func_def.side_effects : func_def.side_effects[k] }>>,
        <<"// Priority: ",
          IF "priority" \in DOMAIN func_def THEN func_def.priority ELSE "normal">>,
        <<"fn ", func_def.name, "(",
          [k \in DOMAIN func_def.parameters |-> ParamStr(func_def.parameters[k])],
          ")",
          IF func_def.return_type # None THEN <<" -> ", func_def.return_type>>
          ELSE <<>>,
          " {">>,
        <<"    // Function logic based on BOC analysis:">>,
        <<"    // Preconditions: inputs_valid, system_resources_available">>,
        <<"    // Postconditions: function_completed, output_consistent_with_spec">>,
        <<"    // Invariants: type_safety_maintained, logical_consistency">>,
        <<"    ">>,
        <<"    // TODO: Implement based on original Clarity intent">>,
        <<"    // Uncertainty propagation should be considered">>,
        <<"    // Error handling as specified in BOC reasoning context">>,
        <<"    ">>,
        <<"    // Placeholder implementation">>,
        <<"    // This would be filled in during manual review or by AI analysis">>,
        <<"}">> >>)

\* word.startswith(prefix)
StartsWith(word, prefix) ==
    Len(word) >= Len(prefix) /\ SubSeq(word, 1, Len(prefix)) = prefix

_generate_variable_declaration(belief) ==
    IF StartsWith(belief.fact, <<"v", "a", "r", "i", "a", "b", "l", "e", "_">>)
       /\ Contains(belief.fact, <<"_", "i", "n", "i", "t", "i", "a", "l", "i", "z", "e", "d">>)
    THEN StrOf(<< <<"// ", belief.confidence, " confidence that ", belief.fact,
                    " = ",
                    IF "value" \in DOMAIN belief THEN belief.value
                    ELSE <<"unknown">> >> >>)
    ELSE StrOf(<< <<"// Belief: ", belief.fact, " (confidence: ",
                    belief.confidence, ")">> >>)

\* _generate_conditional_code returns the list of its lines
_generate_conditional_code(context) ==
    ListOf(<<
        <<"// Reasoning context translated to conditional">>,
        <<"// Condition: ", context.condition>>,
        <<"// Confidence threshold: ", context.confidence_threshold>>,
        <<"if /* condition from reasoning */ {">>,
        <<"    // Then branch logic">>,
        <<"} else {">>,
        <<"    // Else branch logic">>,
        <<"}">> >>)

TypeError == "TypeError"

\* What translate_to_clarity appends for a component; nothing for one that
\* has none of the three keys
Generated(component) ==
    IF "structured_knowledge" \in DOMAIN component
       /\ component.structured_knowledge.type = "function_definition"
    THEN <<_generate_function_code(component.structured_knowledge)>>
    ELSE IF "belief" \in DOMAIN component
         THEN <<_generate_variable_declaration(component.belief)>>
    ELSE IF "reasoning_context" \in DOMAIN component
         THEN <<_generate_conditional_code(component.reasoning_context)>>
    ELSE <<>>

RECURSIVE ClarityCode(_)
\* The items appended for the components, in order
ClarityCode(components) ==
    IF components = <<>> THEN <<>>
    ELSE Generated(Head(components)) \o ClarityCode(Tail(components))

RECURSIVE AllLines(_)
\* The lines of the items, one item after the other
AllLines(items) ==
    IF items = <<>> THEN <<>>
    ELSE Head(items).lines \o AllLines(Tail(items))

\* "\n".join(items): a TypeError if an item is no str
join(items) ==
    IF \E k \in DOMAIN items : items[k].type # "str"
    THEN [raised |-> TypeError, type |-> "NoneType", lines |-> <<>>]
    ELSE [raised |-> None, type |-> "str", lines |-> AllLines(items)]

translate_to_clarity(boc_representation) ==
    join(<<StrOf(<< <<"// Auto-generated from BOC representation">> >>),
           StrOf(<< <<"// Original source: ",
                      boc_representation.structured_knowledge.provenance.author>> >>),
           StrOf(<< <<>> >>)>>
         \o ClarityCode(boc_representation.structured_knowledge.components))

MaxComponents == 3

\* The statements of the callers' programs: the function and the variable of
\* the module's own demonstration, a function without parameters and return
\* type, a mutable variable whose value has no 'value', conditionals with
\* and without an else branch, a loop, and an object without a node_type
ClarityStatements ==
    { [node_type |-> <<"F", "u", "n", "c", "t", "i", "o", "n", "D", "e", "f">>, name |-> <<"a", "d", "j", "u", "s", "t", "_", "t", "e", "m", "p", "e", "r", "a", "t", "u", "r", "e">>,
       params |-> << <<<<"t", "a", "r", "g", "e", "t">>, "Float">> >>, return_type |-> "Bool"],
      [node_type |-> <<"F", "u", "n", "c", "t", "i", "o", "n", "D", "e", "f">>, name |-> <<"c", "r", "i", "t", "i", "c", "a", "l", "_", "u", "p", "d", "a", "t", "e", "_", "c", "o", "u", "n", "t">>,
       params |-> <<>>, return_type |-> None],
      [node_type |-> <<"V", "a", "r", "i", "a", "b", "l", "e", "D", "e", "c", "l">>, name |-> <<"s", "u", "c", "c", "e", "s", "s">>, mutable |-> FALSE,
       value |-> [value |-> "function_call_result"]],
      [node_type |-> <<"V", "a", "r", "i", "a", "b", "l", "e", "D", "e", "c", "l">>, name |-> <<"n">>, mutable |-> TRUE,
       value |-> [str |-> "3"]],
      [node_type |-> <<"I", "f", "E", "x", "p", "r">>, condition |-> [str |-> "x > 1"],
       then_branch |-> <<[class |-> "Return", str |-> "return x"]>>,
       else_branch |-> <<>>],
      [node_type |-> <<"I", "f", "E", "x", "p", "r">>, condition |-> [str |-> "ok"],
       then_branch |-> <<>>,
       else_branch |-> <<[class |-> "Return", str |-> "return 0"]>>],
      [node_type |-> <<"W", "h", "i", "l", "e", "L", "o", "o", "p">>],
      [comment |-> "no node_type"] }

\* The programs of up to MaxComponents statements
ClarityPrograms ==
    { [statements |-> statements] :
        statements \in UNION { [1..n -> ClarityStatements] :
                                   n \in 0..MaxComponents } }

TranslatorOnly ==
    /\ UNCHANGED <<beliefs, heap, now, calls, last, threads, boc_code, ast, node>>
    /\ UNCHANGED <<current_token, propagated>>

\* ClarityToBOCTranslator().translate_entire_program(clarity_ast)
TranslateEntireProgram ==
    /\ translation = NoneValue
    /\ \E clarity_ast \in ClarityPrograms :
          translation' = [clarity_ast |-> clarity_ast,
                          boc |-> translate_entire_program(clarity_ast),
                          clarity |-> <<>>]
    /\ TranslatorOnly

\* BOCtoClarityTranslator().translate_to_clarity(boc) on what the forward
\* translator returned
TranslateToClarity ==
    /\ translation # NoneValue
    /\ translation.clarity = <<>>
    /\ translation' =
           [translation EXCEPT !.clarity = <<translate_to_clarity(translation.boc)>>]
    /\ TranslatorOnly

NextTranslator ==
    \/ TranslateEntireProgram
    \/ TranslateToClarity

SpecTranslator == Init /\ [][NextTranslator]_vars

\* C30: translate_to_clarity returns one text for every representation that
\* translate_entire_program produced, whatever functions, variables,
\* conditionals and other statements the program holds.
C30_BackwardTakesAllForward ==
    (translation # NoneValue /\ translation.clarity # <<>>) =>
        /\ translation.clarity[1].raised = None
        /\ translation.clarity[1].type = "str"

====
